---- MODULE Spec2Model ----
(***************************************************************************)
(* 10minutemail: the message store, the inbox cascade delete, the token    *)
(* lifecycle and the request-path authentication, as state machines over   *)
(* the rows of the PostgreSQL tables.                                      *)
(*                                                                         *)
(* Every `await` on a database call is a step.  A statement sent through   *)
(* the pool's query() commits on its own; the statements of a              *)
(* withTransaction() body stay private to the transaction until COMMIT     *)
(* (PostgreSQL READ COMMITTED): inserted rows are kept in the              *)
(* transaction's pending sets, deleted and updated rows stay visible,      *)
(* and locked, until the transaction ends.                                 *)
(***************************************************************************)
EXTENDS Integers, Sequences, FiniteSets, TLC

\* ---------------------------------------------------------------- bounds

\* UIDs a POP3 mailbox lists are 1..MaxUid, in UIDL order.
MaxUid == 2
\* The most raw messages one fetch job hands to storeMessages.
MaxBatch == 2
\* The wall clock runs 0..MaxTime.
MaxTime == 2
\* Token rows ever inserted.
MaxTok == 3

\* Token lifetimes a request may ask for, in clock ticks: 1..MaxTtl.
MaxTtl == 1

InboxIds == {1, 2}
\* Fetch jobs of the worker queue and SMTP sessions that reach DATA.
FetchJobs == {1, 2}
SmtpJobs == {3}
Jobs == FetchJobs \cup SmtpJobs
\* token:rotate requests.
RotReqs == {"r1", "r2"}
\* POST /v1/inboxes requests taken step by step, and the client addresses
\* they come from.
PostReqs == {"c1", "c2", "c3"}
Ips == {"p", "q"}

\* POP3 pool: config.pop3.maxConcurrentConnections (10 by default) and
\* config.pop3.maxRetries (3 by default), scaled down; the throttle window
\* (30 s by default) in clock ticks.
MaxConcurrent == 1
MaxRetries == 2
ThrottleTicks == 1

\* config.inbox.maxMessageFetch, scaled down.
MaxFetch == 2

\* config.inbox.maxPerIp (MAX_INBOXES_PER_IP, 10 by default), scaled down.
MaxPerIp == 1

\* The greatest limit a GET /messages request asks for.
MaxLimit == 2
\* Calls of pop3Pool.execute and the hosts they go to.
Execs == {1, 2, 3}
Hosts == {"a", "b"}

\* The ids of the rows of table domains.
DomainIds == {1, 2}

\* The RETR commands of one fetch loop, in its order: RETR c asks for
\* message c.
Commands == {1, 2}

\* A plaintext handed to encrypt has at most MaxPlain bytes.
MaxPlain == 3

\* A message of the POP3 server has at most MaxLines lines of at most
\* MaxLineLen characters.
MaxLines == 2
MaxLineLen == 2

\* config.smtp.maxMessageSize, scaled down, and the recipients of one
\* SMTP transaction at most.
MaxMessageSize == 1
MaxRcpt == 2

\* NULL of inboxes.last_seen_uid.
NoUid == 0

\* NULL of inboxes.domain_id.
NoDomain == 0

\* ------------------------------------------------------------- variables

VARIABLES
    inboxes,      \* table inboxes: id -> row ("none": no such row)
    tokens,       \* table tokens: set of rows
    messages,     \* table messages: set of committed rows
    attachments,  \* table attachments: set of committed rows
    now,          \* wall clock
    job,          \* ingestion jobs: position, inbox, batch, next message
    txMsgs,       \* per job: message rows inserted, not yet committed
    txAtts,       \* per job: attachment rows inserted, not yet committed
    del,          \* per inbox: the DELETE request and its transaction
    rot,          \* token:rotate requests
    resp,         \* the last HTTP response sent
    active,       \* Pop3Pool._active: executions holding a slot
    queue,        \* Pop3Pool._queue: parked executions, oldest first
    providerThrottles, \* Pop3Pool._providerThrottles: host -> until (0: no entry)
    exec,         \* calls of Pop3Pool.execute: position, host, attempt
    get,          \* a client reading GET /v1/inboxes/:id/messages
    sel,          \* one run of the worker's UIDL selection: inputs and result
    domains,      \* table domains: id -> row ("none": no such row)
    localDomains, \* the SMTP receiver's cache of local domain names
    smtp,         \* one SMTP session: recipients, inboxMap, replies
    pop,          \* one Pop3Client, its socket and the server behind it
    cry,          \* one run of encrypt and decrypt: input and results
    post,         \* POST /v1/inboxes requests: position, client IP, inbox
    gen           \* one POST /v1/admin/generate request and its transaction

\* What the POP3 pool, the message reader and the UIDL selection add to the
\* tables and requests.
fetchSide == <<active, queue, providerThrottles, exec, get, sel>>

\* What the SMTP receiver, the POP3 client, the encryption runs and the
\* stepwise create and generate requests add.
mailSide == <<domains, localDomains, smtp, pop, cry, post, gen>>

vars == <<inboxes, tokens, messages, attachments, now, job, txMsgs, txAtts,
          del, rot, resp, fetchSide, mailSide>>

\* ------------------------------------------------------------ primitives

\* hashToken: SHA-256 of the raw token, as a hex digest.  A digest is never
\* a raw token (64 hex characters against 15 or 64 random ones) and two raw
\* tokens never share one: digests are the raw values moved to 1001...
hashToken(raw) == 1000 + raw

\* signToken: the JWT signed for the n-th token issued; its token_id claim
\* is a fresh random string, so no two tokens are the same JWT.
signToken(n) == 100 + n

RawTokens == {signToken(n) : n \in 1..MaxTok}

\* encrypt: base64(IV (12) || authTag (16) || ciphertext); the plaintext is
\* a sequence of bytes, the IV and the tag one cell each.
encrypt(plaintext) == <<0, 0>> \o plaintext

\* decrypt: a blob shorter than IV + tag + 1 is refused (EncryptionError).
DecryptFails(blob) == Len(blob) < 3

decrypt(blob) == SubSeq(blob, 3, Len(blob))

\* The mailbox password an inbox is created with (client-supplied for an
\* external inbox, generateInboxAddress's random string for a generated one).
Password(i) == <<i>>

Username(i) == <<10 + i>>

\* Attachments the parsed message of a UID carries: a message's content is
\* fixed by its UID.
AttCount(uid) == uid % 3

\* uid of an SMTP delivery: `smtp-${randomUUID()}`, fresh per delivery.
SmtpUid(j) == 100 + j

\* Raw messages a POP3 session can hand back: a slice of the UIDL listing
\* minus the entries whose RETR failed, so in listing order.
RECURSIVE Increasing(_)
Increasing(s) ==
    IF Len(s) <= 1 THEN TRUE
    ELSE s[1] < s[2] /\ Increasing(Tail(s))

Batches ==
    {s \in UNION {[1..n -> 1..MaxUid] : n \in 0..MaxBatch} : Increasing(s)}

\* The address of inbox i as POST /v1/inboxes stores it.
Email(i) == IF i = 1 THEN <<"u", "x">> ELSE <<"v", "y">>

\* ------------------------------------------------------------------ rows

NoInboxRow ==
    [status |-> "none", inbox_type |-> "none", pop3_username_enc |-> << >>,
     pop3_password_enc |-> << >>, last_seen_uid |-> NoUid,
     email_address |-> << >>, domain_id |-> NoDomain,
     created_by_ip |-> "none"]

\* A POST /v1/inboxes request that has not reached its handler.
IdlePost == [pc |-> "idle", ip |-> "none", inbox |-> 0]

\* A POST /v1/admin/generate request before its handler: the addresses to
\* generate, the rows its transaction has inserted (the batch record, the
\* inboxes), and the inbox whose token is to be created.
IdleGen ==
    [pc |-> "idle", count |-> 0, batch |-> FALSE, inboxes |-> {}, cur |-> 0]

\* err: the kind of error a failed job threw; begun: the time its
\* storeMessages transaction began.
IdleJob ==
    [pc |-> "idle", inbox |-> 0, batch |-> << >>, k |-> 0, err |-> "none",
     begun |-> 0]

DoneJob == [IdleJob EXCEPT !.pc = "done"]

FailedJob(err) == [IdleJob EXCEPT !.pc = "failed", !.err = err]

IdleDel == [pc |-> "idle", msgs |-> {}, atts |-> {}, toks |-> {}]

IdleRot == [pc |-> "idle", inbox |-> 0, token |-> 0]

\* client: the Pop3Client of the current turn of the retry loop (0: none);
\* destroyed: the clients of this execution whose socket was destroyed.
IdleExec ==
    [pc |-> "idle", host |-> "none", attempt |-> 0, client |-> 0,
     destroyed |-> {}]

IdleGet ==
    [pc |-> "idle", inbox |-> 0, job |-> 0, since |-> 0, limit |-> 0,
     page |-> << >>, seen |-> << >>]

NoSel ==
    [pc |-> "idle", uidList |-> << >>, sinceUid |-> 0, limit |-> 0,
     toFetch |-> << >>, k |-> 0, results |-> << >>]

\* No row of table domains under an id.
NoDomainRow == [domain |-> "none", is_local |-> FALSE, is_active |-> FALSE]

\* An SMTP session after MAIL FROM: the envelope's recipients, the session's
\* inboxMap (lower-cased address -> inbox id, 0 without an entry), the
\* address of the RCPT TO being handled, the last reply, and the delivery
\* loop of onData (k: next recipient, delivered: its counter).
NoSession ==
    [pc |-> "idle", rcptTo |-> << >>, inboxMap |-> [a \in {} |-> 0],
     address |-> << >>, reply |-> "none", k |-> 0, delivered |-> 0]

\* A command whose caller has been handed nothing yet.
NoResult == [kind |-> "none", data |-> << >>]

\* The command id of the UIDL that opens the fetch operation.
UIDL == 3

\* A Pop3Client with the server behind its socket: the promise of connect()
\* ("none": not called), whether its timer is pending, the socket ("none",
\* "opening", "open", "closed"), whether the greeting was seen; state, _buffer,
\* _multiline, the command whose promise _currentResolve and _currentReject
\* settle (0: both null), the commands the server has not answered yet, the
\* characters on their way to the client, what each command's caller was
\* handed; and the server's side: how it answered each command, the number
\* of messages in the mailbox and their body lines.
NoPop ==
    [connect |-> "none", timer |-> FALSE, socket |-> "none",
     greeted |-> FALSE,
     state |-> "DISCONNECTED", buffer |-> << >>, multiline |-> FALSE,
     current |-> 0, sent |-> << >>, inflight |-> << >>,
     result |-> [c \in Commands \cup {UIDL} |-> NoResult],
     replied |-> [c \in Commands \cup {UIDL} |-> "none"],
     count |-> 0,
     body |-> [c \in Commands |-> << >>]]

\* One use of the credential cipher: a plaintext, the blob encrypt made of
\* it, and what decrypt gave back or that it threw.
NoCry ==
    [pc |-> "idle", plaintext |-> << >>, blob |-> << >>, out |-> << >>,
     failed |-> FALSE]

NoResp ==
    [op |-> "none", code |-> 0, kind |-> "none", token |-> 0,
     path |-> 0, inbox |-> 0, passwords |-> {}]

Init ==
    /\ inboxes = [i \in InboxIds |-> NoInboxRow]
    /\ tokens = {}
    /\ messages = {}
    /\ attachments = {}
    /\ now = 0
    /\ job = [j \in Jobs |-> IdleJob]
    /\ txMsgs = [j \in Jobs |-> {}]
    /\ txAtts = [j \in Jobs |-> {}]
    /\ del = [i \in InboxIds |-> IdleDel]
    /\ rot = [r \in RotReqs |-> IdleRot]
    /\ resp = NoResp
    /\ active = 0
    /\ queue = << >>
    /\ providerThrottles = [h \in Hosts |-> 0]
    /\ exec = [e \in Execs |-> IdleExec]
    /\ get = IdleGet
    /\ sel = NoSel
    /\ domains = [d \in DomainIds |-> NoDomainRow]
    /\ localDomains = {}
    /\ smtp = NoSession
    /\ pop = NoPop
    /\ cry = NoCry
    /\ post = [q \in PostReqs |-> IdlePost]
    /\ gen = IdleGen

\* The tables and the requests on them, without the clock.
storeSide ==
    <<inboxes, tokens, messages, attachments, job, txMsgs, txAtts, del, rot,
      resp>>

\* --------------------------------------------- request-path authentication

Headers ==
    [kind : {"missing", "malformed", "empty"}, token : {0}]
    \cup [kind : {"bearer"},
          token : RawTokens \cup {hashToken(signToken(1))}]

\* The rows the lookup returns: token_hash is UNIQUE, so at most one.
TokenRowsByHash(h) == {t \in tokens : t.token_hash = h}

\* An authenticate that trusts the status column alone and leaves expiry to
\* the sweep.
authenticateNoExpiry(hdr) ==
    IF hdr.kind \in {"missing", "malformed"} THEN [code |-> 401, inbox |-> 0]
    ELSE IF hdr.kind = "empty" THEN [code |-> 401, inbox |-> 0]
    ELSE LET rows == TokenRowsByHash(hashToken(hdr.token)) IN
        IF rows = {} THEN [code |-> 401, inbox |-> 0]
        ELSE LET tokenRow == CHOOSE t \in rows : TRUE IN
            IF tokenRow.status # "active" THEN [code |-> 401, inbox |-> 0]
            ELSE IF inboxes[tokenRow.inbox_id].status # "active"
                THEN [code |-> 403, inbox |-> 0]
            ELSE [code |-> 200, inbox |-> tokenRow.inbox_id]

\* An authenticate that tests the inbox status before the token's status and
\* expiry.
authenticateInboxFirst(hdr) ==
    IF hdr.kind \in {"missing", "malformed"} THEN [code |-> 401, inbox |-> 0]
    ELSE IF hdr.kind = "empty" THEN [code |-> 401, inbox |-> 0]
    ELSE LET rows == TokenRowsByHash(hashToken(hdr.token)) IN
        IF rows = {} THEN [code |-> 401, inbox |-> 0]
        ELSE LET tokenRow == CHOOSE t \in rows : TRUE IN
            IF inboxes[tokenRow.inbox_id].status # "active"
                THEN [code |-> 403, inbox |-> 0]
            ELSE IF tokenRow.status # "active" THEN [code |-> 401, inbox |-> 0]
            ELSE IF tokenRow.expires_at < now THEN [code |-> 401, inbox |-> 0]
            ELSE [code |-> 200, inbox |-> tokenRow.inbox_id]

\* authenticate: the outcome for a request carrying header hdr.
\*   [code |-> 200, inbox |-> the inbox id attached to the request], or
\*   [code |-> 401 | 403, inbox |-> 0] for the error thrown.
authenticate(hdr) ==
    IF hdr.kind \in {"missing", "malformed"} THEN [code |-> 401, inbox |-> 0]
    ELSE IF hdr.kind = "empty" THEN [code |-> 401, inbox |-> 0]
    ELSE LET rows == TokenRowsByHash(hashToken(hdr.token)) IN
        IF rows = {} THEN [code |-> 401, inbox |-> 0]
        ELSE LET tokenRow == CHOOSE t \in rows : TRUE IN
            IF tokenRow.status # "active" THEN [code |-> 401, inbox |-> 0]
            ELSE IF tokenRow.expires_at < now THEN [code |-> 401, inbox |-> 0]
            ELSE IF inboxes[tokenRow.inbox_id].status # "active"
                THEN [code |-> 403, inbox |-> 0]
            ELSE [code |-> 200, inbox |-> tokenRow.inbox_id]

\* authorizeInbox: after authenticate attached inboxId; id is the :id path
\* parameter (0: the route has none).
authorizeInbox(inboxId, id) ==
    IF id # 0 /\ inboxId # id THEN 403 ELSE 200

\* The preHandler chain [authenticate, authorizeInbox] of the inbox routes.
PreHandler(hdr, id) ==
    LET a == authenticate(hdr) IN
    IF a.code # 200 THEN a
    ELSE IF authorizeInbox(a.inbox, id) # 200 THEN [code |-> 403, inbox |-> 0]
    ELSE a

Admitted(hdr, id) == PreHandler(hdr, id).code = 200

\* A request to any route guarded by the preHandler chain, up to the point
\* where the handler would start: the response is the rejection, or 200 for
\* a request let through.
AuthRequest(hdr, id) ==
    /\ resp' = [NoResp EXCEPT !.op = "auth",
                              !.code = PreHandler(hdr, id).code,
                              !.kind = hdr.kind, !.token = hdr.token,
                              !.path = id,
                              !.inbox = PreHandler(hdr, id).inbox]
    /\ UNCHANGED <<inboxes, tokens, messages, attachments, now, job, txMsgs,
                   txAtts, del, rot,
                   fetchSide, mailSide>>

\* ------------------------------------------------------------------ tokens

\* Token rows a transaction in progress has updated and still locks.
LockedTokens ==
    UNION {IF del[i].pc \in {"toksRevoked", "updated"} THEN del[i].toks ELSE {}
           : i \in InboxIds}

\* A createToken that persists the JWT itself.
TokenRowRaw(n, inboxId, ttl) ==
    [id |-> n, inbox_id |-> inboxId, token_hash |-> signToken(n),
     status |-> "active", expires_at |-> now + ttl, revoked_at |-> 0 - 1]

\* createToken: the row inserted for the n-th token ever issued.  Only the
\* hash of the raw token goes into the row.
TokenRow(n, inboxId, ttl) ==
    [id |-> n, inbox_id |-> inboxId,
     token_hash |-> hashToken(signToken(n)),
     status |-> "active", expires_at |-> now + ttl, revoked_at |-> 0 - 1]

NextTokenId == Cardinality(tokens) + 1

\* UPDATE tokens SET status = 'revoked', revoked_at = NOW()
\*   WHERE inbox_id = $1 AND status = 'active'
RevokeAll(rows, inboxId) ==
    {IF t.inbox_id = inboxId /\ t.status = "active"
        THEN [t EXCEPT !.status = "revoked", !.revoked_at = now]
        ELSE t : t \in rows}

ActiveTokens(inboxId) ==
    {t \in tokens : t.inbox_id = inboxId /\ t.status = "active"}

\* POST /v1/inboxes: insert the inbox with encrypted credentials, issue its
\* first token.  The response carries the raw token and no password.  The
\* per-IP limit (10 active inboxes by default) is out of reach of InboxIds;
\* nothing can use the inbox between the two inserts, which are one step.
CreateInbox(i, mode, ttl) ==
    /\ inboxes[i].status = "none"
    /\ NextTokenId <= MaxTok
    /\ inboxes' = [inboxes EXCEPT ![i] =
            [status |-> "active", inbox_type |-> mode,
             pop3_username_enc |-> encrypt(Username(i)),
             pop3_password_enc |-> encrypt(Password(i)),
             last_seen_uid |-> NoUid,
             email_address |-> Email(i), domain_id |-> NoDomain,
             created_by_ip |-> "p"]]
    /\ tokens' = tokens \cup {TokenRow(NextTokenId, i, ttl)}
    /\ resp' = [NoResp EXCEPT !.op = "create", !.code = 201,
                              !.token = signToken(NextTokenId),
                              !.inbox = i]
    /\ UNCHANGED <<messages, attachments, now, job, txMsgs, txAtts, del, rot,
                   fetchSide, mailSide>>

\* POST /v1/inboxes/:id/token:rotate, the preHandler chain: the request is
\* let through to the handler.
RotAuth(r, hdr, id) ==
    /\ rot[r].pc = "idle"
    /\ Admitted(hdr, id)
    /\ rot' = [rot EXCEPT ![r] = [pc |-> "authed", inbox |-> id, token |-> 0]]
    /\ UNCHANGED <<inboxes, tokens, messages, attachments, now, job, txMsgs,
                   txAtts, del, resp,
                   fetchSide, mailSide>>

\* rotateToken, first statement: revokeAllTokens(inboxId).  The UPDATE waits
\* while a transaction holds a row it would change.
RotRevoke(r) ==
    /\ rot[r].pc = "authed"
    /\ {t.id : t \in ActiveTokens(rot[r].inbox)} \cap LockedTokens = {}
    /\ tokens' = RevokeAll(tokens, rot[r].inbox)
    /\ rot' = [rot EXCEPT ![r].pc = "revoked"]
    /\ UNCHANGED <<inboxes, messages, attachments, now, job, txMsgs, txAtts,
                   del, resp,
                   fetchSide, mailSide>>

\* rotateToken, second statement: createToken; the handler then answers
\* with the new raw token.
RotCreate(r, ttl) ==
    /\ rot[r].pc = "revoked"
    /\ NextTokenId <= MaxTok
    /\ tokens' = tokens \cup {TokenRow(NextTokenId, rot[r].inbox, ttl)}
    /\ rot' = [rot EXCEPT ![r].pc = "done",
                          ![r].token = signToken(NextTokenId)]
    /\ resp' = [NoResp EXCEPT !.op = "rotate", !.code = 200,
                              !.token = signToken(NextTokenId),
                              !.inbox = rot[r].inbox]
    /\ UNCHANGED <<inboxes, messages, attachments, now, job, txMsgs, txAtts,
                   del,
                   fetchSide, mailSide>>

\* cleanExpiredTokens, the five-minute sweep:
\* UPDATE tokens SET status = 'expired' WHERE status = 'active' AND expires_at < NOW()
cleanExpiredTokens ==
    /\ \E t \in tokens : t.status = "active" /\ t.expires_at < now
    /\ {t.id : t \in {x \in tokens : x.status = "active" /\ x.expires_at < now}}
          \cap LockedTokens = {}
    /\ tokens' = {IF t.status = "active" /\ t.expires_at < now
                     THEN [t EXCEPT !.status = "expired"] ELSE t : t \in tokens}
    /\ UNCHANGED <<inboxes, messages, attachments, now, job, txMsgs, txAtts,
                   del, rot, resp,
                   fetchSide, mailSide>>

\* Time passes.
Tick ==
    /\ now < MaxTime
    /\ now' = now + 1
    /\ UNCHANGED <<inboxes, tokens, messages, attachments, job, txMsgs, txAtts,
                   del, rot, resp,
                   fetchSide, mailSide>>

\* ------------------------------------------------- ingestion (storeMessages)

InTx(j) == job[j].pc = "tx"

\* DELETE transactions in progress keep the rows they deleted locked.
DelInTx(i) ==
    del[i].pc \in {"checked", "attsDeleted", "msgsDeleted", "toksRevoked",
                   "updated"}

KeyTaken(rows, inboxId, uid) ==
    \E m \in rows : m.inbox_id = inboxId /\ m.uid = uid

\* The unique index on (inbox_id, uid) makes an INSERT wait while another
\* transaction in progress holds the key: an uncommitted insert of it, or an
\* uncommitted delete of the row that has it.
KeyLockedByOther(j, inboxId, uid) ==
    \/ \E j2 \in Jobs \ {j} : InTx(j2) /\ KeyTaken(txMsgs[j2], inboxId, uid)
    \/ DelInTx(inboxId) /\ KeyTaken(del[inboxId].msgs, inboxId, uid)

\* INSERT INTO messages ... ON CONFLICT (inbox_id, uid) DO NOTHING RETURNING:
\* the rows returned, given the rows the statement sees.
InsertOnConflictDoNothing(visible, row) ==
    IF KeyTaken(visible, row.inbox_id, row.uid) THEN {} ELSE {row}

\* A storeMessages without the skip after an insert that returned no row: the
\* attachments are written again, onto the row that already has the key.
AttachmentsForEveryInsert(j, k, visible, row, returned) ==
    LET target == CHOOSE m \in visible \cup {row} :
                      m.inbox_id = row.inbox_id /\ m.uid = row.uid
    IN {[id |-> <<j, k, n>>, message_id |-> target.id,
         inbox_id |-> row.inbox_id, idx |-> n] : n \in 1..AttCount(row.uid)}

\* The attachment rows written for the message at position k of job j's
\* batch: none when the insert returned no row.
AttachmentsFor(j, k, visible, row, returned) ==
    IF returned = {} THEN {}
    ELSE {[id |-> <<j, k, n>>, message_id |-> row.id,
           inbox_id |-> row.inbox_id, idx |-> n] : n \in 1..AttCount(row.uid)}

\* fetchMailWorker: getInboxCredentials(inboxId) selects the row WHERE
\* status = 'active' and throws NotFoundError without one.
FetchResolve(j, i) ==
    /\ j \in FetchJobs
    /\ job[j].pc = "idle"
    /\ inboxes[i].status # "none"
    /\ job' = [job EXCEPT ![j] =
            IF inboxes[i].status # "active" THEN FailedJob("notfound")
            ELSE IF DecryptFails(inboxes[i].pop3_password_enc)
                THEN FailedJob("encryption")
            ELSE [IdleJob EXCEPT !.pc = "resolved", !.inbox = i]]
    /\ UNCHANGED <<inboxes, tokens, messages, attachments, now, txMsgs, txAtts,
                   del, rot, resp,
                   fetchSide, mailSide>>

\* How the POP3 session and the parsing of what it retrieved can end:
\* "pop3": pop3Pool.execute threw (a throttled host, the retries used up);
\* "parse": parseMessage threw for one of the raw messages, which rejects the
\* Promise.all of parseMessages; "ok": every raw message parsed.
SessionOutcomes == {"ok", "pop3", "parse"}

\* fetchMailWorker: pop3Pool.execute returned rawMessages b (an entry whose
\* RETR failed is not in it); none ends the job, otherwise they are parsed
\* and storeMessages opens its transaction, whose start time is the
\* fetched_at (DEFAULT NOW()) of the rows it inserts.  An error of execute or
\* of parseMessages ends the job before anything is stored.
FetchSession(j, b, outcome) ==
    /\ j \in FetchJobs
    /\ job[j].pc = "resolved"
    /\ outcome = "parse" => b # << >>
    /\ outcome = "pop3" => b = << >>
    /\ job' = [job EXCEPT ![j] =
            IF outcome = "pop3" THEN FailedJob("pop3")
            ELSE IF b = << >> THEN DoneJob
            ELSE IF outcome = "parse" THEN FailedJob("parse")
            ELSE [@ EXCEPT !.pc = "tx", !.batch = b, !.k = 1, !.begun = now]]
    /\ UNCHANGED <<inboxes, tokens, messages, attachments, now, txMsgs, txAtts,
                   del, rot, resp,
                   fetchSide, mailSide>>

\* SMTP onRcptTo: findInboxByEmail found an active inbox; it is stashed on
\* the session.  Without one the recipient is refused.
SmtpRcpt(j, i) ==
    /\ j \in SmtpJobs
    /\ job[j].pc = "idle"
    /\ inboxes[i].status # "none"
    /\ job' = [job EXCEPT ![j] =
            IF inboxes[i].status = "active"
            THEN [IdleJob EXCEPT !.pc = "resolved", !.inbox = i]
            ELSE FailedJob("refused")]
    /\ UNCHANGED <<inboxes, tokens, messages, attachments, now, txMsgs, txAtts,
                   del, rot, resp,
                   fetchSide, mailSide>>

\* SMTP onData, end of stream: the message is parsed and storeIncomingMessage
\* calls storeMessages(inbox.id, [parsedMsg]) with a fresh uid.
SmtpData(j) ==
    /\ j \in SmtpJobs
    /\ job[j].pc = "resolved"
    /\ job' = [job EXCEPT ![j].pc = "tx", ![j].batch = <<SmtpUid(j)>>,
                          ![j].k = 1, ![j].begun = now]
    /\ UNCHANGED <<inboxes, tokens, messages, attachments, now, txMsgs, txAtts,
                   del, rot, resp,
                   fetchSide, mailSide>>

\* A storeMessages whose statements go through the pool instead of the
\* transaction's client: each row is committed as it is inserted.
StoreInsertAutocommit(j) ==
    /\ InTx(j)
    /\ job[j].k <= Len(job[j].batch)
    /\ LET k == job[j].k
           row == [id |-> <<j, k>>, inbox_id |-> job[j].inbox,
                   uid |-> job[j].batch[k], fetched_at |-> job[j].begun]
           returned == InsertOnConflictDoNothing(messages, row)
       IN /\ ~KeyLockedByOther(j, row.inbox_id, row.uid)
          /\ messages' = messages \cup returned
          /\ attachments' = attachments
                                \cup AttachmentsFor(j, k, messages, row, returned)
          /\ job' = [job EXCEPT ![j].k = k + 1]
    /\ UNCHANGED <<inboxes, tokens, now, txMsgs, txAtts, del, rot, resp,
                   fetchSide, mailSide>>

\* storeMessages, one turn of the loop: insert the message, then its
\* attachments unless the insert returned no row.  All of it through the
\* transaction's client: nothing is visible outside before COMMIT.
StoreInsert(j) ==
    /\ InTx(j)
    /\ job[j].k <= Len(job[j].batch)
    /\ LET k == job[j].k
           row == [id |-> <<j, k>>, inbox_id |-> job[j].inbox,
                   uid |-> job[j].batch[k], fetched_at |-> job[j].begun]
           visible == messages \cup txMsgs[j]
           returned == InsertOnConflictDoNothing(visible, row)
       IN /\ ~KeyLockedByOther(j, row.inbox_id, row.uid)
          /\ txMsgs' = [txMsgs EXCEPT ![j] = @ \cup returned]
          /\ txAtts' = [txAtts EXCEPT ![j] =
                            @ \cup AttachmentsFor(j, k, visible, row, returned)]
          /\ job' = [job EXCEPT ![j].k = k + 1]
    /\ UNCHANGED <<inboxes, tokens, messages, attachments, now, del, rot, resp,
                   fetchSide, mailSide>>

\* withTransaction: COMMIT after the loop; the transaction's rows become
\* visible together.  A fetch job goes on to the cursor update, an SMTP
\* delivery is done.
StoreCommit(j) ==
    /\ InTx(j)
    /\ job[j].k > Len(job[j].batch)
    /\ messages' = messages \cup txMsgs[j]
    /\ attachments' = attachments \cup txAtts[j]
    /\ txMsgs' = [txMsgs EXCEPT ![j] = {}]
    /\ txAtts' = [txAtts EXCEPT ![j] = {}]
    /\ job' = [job EXCEPT ![j] = IF j \in FetchJobs THEN [@ EXCEPT !.pc = "stored"]
                                              ELSE DoneJob]
    /\ UNCHANGED <<inboxes, tokens, now, del, rot, resp,
                   fetchSide, mailSide>>

\* withTransaction: a statement threw (a database error, a deadlock abort):
\* ROLLBACK, the error goes up and the job fails.
StoreFail(j) ==
    /\ InTx(j)
    /\ txMsgs' = [txMsgs EXCEPT ![j] = {}]
    /\ txAtts' = [txAtts EXCEPT ![j] = {}]
    /\ job' = [job EXCEPT ![j] = FailedJob("store")]
    /\ UNCHANGED <<inboxes, tokens, messages, attachments, now, del, rot, resp,
                   fetchSide, mailSide>>

\* The uid fetchMailWorker hands to updateLastSeenUid: the last raw message
\* of the job, in the order the messages were retrieved.
LastUidFirst(batch) == batch[1]
LastUid(batch) == batch[Len(batch)]

\* A cursor update that keeps the greater of the stored and the new uid.
updateLastSeenUidMonotonic(row, lastUid) ==
    [row EXCEPT !.last_seen_uid = IF @ > lastUid THEN @ ELSE lastUid]
\* UPDATE inboxes SET last_seen_uid = $1 WHERE id = $2.
updateLastSeenUid(row, lastUid) == [row EXCEPT !.last_seen_uid = lastUid]

\* fetchMailWorker, after storeMessages returned: updateLastSeenUid with the
\* uid of the last raw message.  The UPDATE waits for a transaction that has
\* updated the inbox row.  The settled job keeps the batch it retrieved (the
\* worker's return value is the list of stored messages).
FetchAdvance(j) ==
    /\ job[j].pc = "stored"
    /\ del[job[j].inbox].pc # "updated"
    /\ inboxes' = [inboxes EXCEPT ![job[j].inbox] =
                        updateLastSeenUid(@, LastUid(job[j].batch))]
    /\ job' = [job EXCEPT ![j] = [DoneJob EXCEPT !.inbox = job[j].inbox,
                                                 !.batch = job[j].batch]]
    /\ UNCHANGED <<tokens, messages, attachments, now, txMsgs, txAtts, del,
                   rot, resp,
                   fetchSide, mailSide>>

\* ------------------------------------------ the worker's UIDL selection

\* The listings a POP3 server can answer UIDL with: every uid at most once.
Listings ==
    {l \in UNION {[1..n -> 1..(MaxUid + 1)] : n \in 0..(MaxUid + 1)} :
        \A a, b \in 1..Len(l) : a # b => l[a] # l[b]}

\* Array.prototype.findIndex: the first index whose entry has the uid, -1
\* when there is none (indices as in the source, from 0).
findIndex(uidList, uid) ==
    IF \E n \in 1..Len(uidList) : uidList[n] = uid
    THEN (CHOOSE n \in 1..Len(uidList) :
              /\ uidList[n] = uid
              /\ \A n2 \in 1..(n - 1) : uidList[n2] # uid) - 1
    ELSE -1

\* Array.prototype.slice(from, to) for 0 <= from and 0 <= to.
slice(list, from, to) ==
    SubSeq(list, from + 1, IF to < Len(list) THEN to ELSE Len(list))

\* A filter that keeps the sinceUid entry itself.
newEntriesInclusive(uidList, sinceUid) ==
    IF sinceUid # NoUid /\ findIndex(uidList, sinceUid) # -1
    THEN slice(uidList, findIndex(uidList, sinceUid), Len(uidList))
    ELSE uidList
\* newEntries: uidList, or what follows sinceUid when sinceUid is given and
\* listed.
newEntries(uidList, sinceUid) ==
    IF sinceUid # NoUid /\ findIndex(uidList, sinceUid) # -1
    THEN slice(uidList, findIndex(uidList, sinceUid) + 1, Len(uidList))
    ELSE uidList

\* Math.min(limit || maxMessageFetch, maxMessageFetch); limit 0 is a job
\* without a limit.
fetchLimit(limit) ==
    IF (IF limit = 0 THEN MaxFetch ELSE limit) < MaxFetch
    THEN (IF limit = 0 THEN MaxFetch ELSE limit)
    ELSE MaxFetch

toFetch(uidList, sinceUid, limit) ==
    slice(newEntries(uidList, sinceUid), 0, fetchLimit(limit))

\* client.uidl() answered; the worker filters and cuts the listing.  An empty
\* listing or an empty selection ends the operation with no RETR.
SelectUidl ==
    /\ sel.pc = "uidl"
    /\ sel' = [sel EXCEPT
                  !.toFetch = toFetch(sel.uidList, sel.sinceUid, sel.limit),
                  !.k = 1,
                  !.pc = IF toFetch(sel.uidList, sel.sinceUid, sel.limit) = << >>
                         THEN "done" ELSE "retr"]
    /\ UNCHANGED <<storeSide, now, active, queue, providerThrottles, exec, get, mailSide>>

\* One turn of the RETR loop: the next selected entry is requested; a failed
\* RETR is logged and the entry skipped.
SelectRetrieve(ok) ==
    /\ sel.pc = "retr"
    /\ sel' = [sel EXCEPT
                  !.results = IF ok THEN Append(@, sel.toFetch[sel.k]) ELSE @,
                  !.k = @ + 1,
                  !.pc = IF sel.k = Len(sel.toFetch) THEN "done" ELSE "retr"]
    /\ UNCHANGED <<storeSide, now, active, queue, providerThrottles, exec, get, mailSide>>

\* ----------------------------------------------- DELETE /v1/inboxes/:id

\* The preHandler chain let the request through.
DelAuth(i, hdr) ==
    /\ del[i].pc = "idle"
    /\ Admitted(hdr, i)
    /\ del' = [del EXCEPT ![i].pc = "authed"]
    /\ UNCHANGED <<inboxes, tokens, messages, attachments, now, job, txMsgs,
                   txAtts, rot, resp,
                   fetchSide, mailSide>>

\* deleteInbox: BEGIN, then SELECT id FROM inboxes WHERE id = $1 AND status =
\* 'active'; no row throws NotFoundError and the transaction rolls back.
DelCheck(i) ==
    /\ del[i].pc = "authed"
    /\ del' = [del EXCEPT ![i].pc =
                  IF inboxes[i].status = "active" THEN "checked" ELSE "failed"]
    /\ UNCHANGED <<inboxes, tokens, messages, attachments, now, job, txMsgs,
                   txAtts, rot, resp,
                   fetchSide, mailSide>>

\* DELETE FROM attachments WHERE inbox_id = $1: the committed rows the
\* statement sees.
DelAttachments(i) ==
    /\ del[i].pc = "checked"
    /\ del' = [del EXCEPT ![i].pc = "attsDeleted",
                          ![i].atts = {a \in attachments : a.inbox_id = i}]
    /\ UNCHANGED <<inboxes, tokens, messages, attachments, now, job, txMsgs,
                   txAtts, rot, resp,
                   fetchSide, mailSide>>

\* DELETE FROM messages WHERE inbox_id = $1, with the ON DELETE CASCADE of
\* attachments.message_id.
DelMessages(i) ==
    /\ del[i].pc = "attsDeleted"
    /\ LET gone == {m \in messages : m.inbox_id = i} IN
       del' = [del EXCEPT ![i].pc = "msgsDeleted",
                          ![i].msgs = gone,
                          ![i].atts = @ \cup
                              {a \in attachments :
                                  \E m \in gone : a.message_id = m.id}]
    /\ UNCHANGED <<inboxes, tokens, messages, attachments, now, job, txMsgs,
                   txAtts, rot, resp,
                   fetchSide, mailSide>>

\* UPDATE tokens SET status = 'revoked', revoked_at = NOW()
\*   WHERE inbox_id = $1 AND status = 'active'
DelRevoke(i) ==
    /\ del[i].pc = "msgsDeleted"
    /\ del' = [del EXCEPT ![i].pc = "toksRevoked",
                          ![i].toks = {t.id : t \in ActiveTokens(i)}]
    /\ UNCHANGED <<inboxes, tokens, messages, attachments, now, job, txMsgs,
                   txAtts, rot, resp,
                   fetchSide, mailSide>>

\* UPDATE inboxes SET status = 'deleted', deleted_at = NOW(),
\*   pop3_username_enc = '', pop3_password_enc = '' WHERE id = $2
DelUpdate(i) ==
    /\ del[i].pc = "toksRevoked"
    /\ del' = [del EXCEPT ![i].pc = "updated"]
    /\ UNCHANGED <<inboxes, tokens, messages, attachments, now, job, txMsgs,
                   txAtts, rot, resp,
                   fetchSide, mailSide>>

\* COMMIT: everything the transaction did becomes visible at once.
DelCommit(i) ==
    /\ del[i].pc = "updated"
    /\ attachments' = attachments \ del[i].atts
    /\ messages' = messages \ del[i].msgs
    /\ tokens' = {IF t.id \in del[i].toks
                     THEN [t EXCEPT !.status = "revoked", !.revoked_at = now]
                     ELSE t : t \in tokens}
    /\ inboxes' = [inboxes EXCEPT ![i].status = "deleted",
                                  ![i].pop3_username_enc = << >>,
                                  ![i].pop3_password_enc = << >>]
    /\ del' = [del EXCEPT ![i] = [IdleDel EXCEPT !.pc = "done"]]
    /\ UNCHANGED <<now, job, txMsgs, txAtts, rot, resp,
                   fetchSide, mailSide>>

\* A statement of the transaction threw: ROLLBACK, nothing it did remains.
DelFail(i) ==
    /\ DelInTx(i)
    /\ del' = [del EXCEPT ![i] = [IdleDel EXCEPT !.pc = "failed"]]
    /\ UNCHANGED <<inboxes, tokens, messages, attachments, now, job, txMsgs,
                   txAtts, rot, resp,
                   fetchSide, mailSide>>

\* ------------------------------------------------------------ POP3 pool

\* An _acquireSlot that never parks.
SlotAlwaysFree == TRUE

\* _acquireSlot: a slot is free.
SlotFree == active < MaxConcurrent

\* A _drainQueue that pops the newest waiter.
NewestWaiter(q) == q[Len(q)]

\* _drainQueue: the waiter a released slot goes to.
NextWaiter(q) == Head(q)

\* An _isThrottled that still refuses at the instant the window ends.
IsThrottledInclusive(host) ==
    providerThrottles[host] # 0 /\ providerThrottles[host] >= now

\* _isThrottled: the host has an entry whose until is after now.
IsThrottled(host) == providerThrottles[host] > now

\* releaseSlot of execution e, which ends in position pc: _active--, then
\* _drainQueue shifts a waiter off a non-empty queue and runs it, which takes
\* the slot (_active++) before anything else can run.
ReleaseSlot(e, pc) ==
    LET ended == [IdleExec EXCEPT !.pc = pc] IN
    IF queue # << >> /\ active - 1 < MaxConcurrent
    THEN LET next == NextWaiter(queue) IN
         /\ active' = (active - 1) + 1
         /\ queue' = SelectSeq(queue, LAMBDA x : x # next)
         /\ exec' = [exec EXCEPT ![e] = ended, ![next].pc = "woken"]
    ELSE /\ active' = active - 1
         /\ queue' = queue
         /\ exec' = [exec EXCEPT ![e] = ended]

\* execute(credentials, operation) is called: a throttled host fails the call
\* at once; otherwise _isThrottled drops the host's entry and _acquireSlot
\* takes a free slot or parks the caller at the end of the queue.
ExecCall(e, host) ==
    /\ exec[e].pc = "idle"
    /\ IF IsThrottled(host)
       THEN /\ exec' = [exec EXCEPT ![e] = [IdleExec EXCEPT !.pc = "throttled",
                                                             !.host = host]]
            /\ UNCHANGED <<active, queue, providerThrottles, mailSide>>
       ELSE /\ providerThrottles' = [providerThrottles EXCEPT ![host] = 0]
            /\ IF SlotFree
               THEN /\ active' = active + 1
                    /\ queue' = queue
                    /\ exec' = [exec EXCEPT ![e] =
                                    [IdleExec EXCEPT !.pc = "ready",
                                                     !.host = host]]
               ELSE /\ active' = active
                    /\ queue' = Append(queue, e)
                    /\ exec' = [exec EXCEPT ![e] =
                                    [IdleExec EXCEPT !.pc = "parked",
                                                     !.host = host]]
    /\ UNCHANGED <<storeSide, now, get, sel, mailSide>>

\* The execution has its slot, taken free ("ready") or handed over by a
\* release ("woken"): the first turn of the retry loop creates a
\* Pop3Client and connects.
ExecConnect(e) ==
    /\ exec[e].pc \in {"ready", "woken"}
    /\ exec' = [exec EXCEPT ![e].pc = "attempt", ![e].attempt = 1,
                            ![e].client = 1]
    /\ UNCHANGED <<storeSide, now, active, queue, providerThrottles, get, sel, mailSide>>

\* connect, authenticate, operation and quit went through: releaseSlot and
\* return the result.
ExecSucceed(e) ==
    /\ exec[e].pc = "attempt"
    /\ ReleaseSlot(e, "done")
    /\ UNCHANGED <<storeSide, now, providerThrottles, get, sel, mailSide>>

\* A catch block that sets the throttle on a signal and goes on with the
\* retry loop.
ExecErrorBackoffOnSignal(e, signal) ==
    /\ exec[e].pc = "attempt"
    /\ providerThrottles' =
           IF signal
           THEN [providerThrottles EXCEPT ![exec[e].host] = now + ThrottleTicks]
           ELSE providerThrottles
    /\ IF exec[e].attempt < MaxRetries
       THEN /\ exec' = [exec EXCEPT ![e].pc = "backoff",
                                    ![e].destroyed = @ \cup {exec[e].client}]
            /\ UNCHANGED <<active, queue>>
       ELSE ReleaseSlot(e, "failed")
    /\ UNCHANGED <<storeSide, now, get, sel, mailSide>>

\* The attempt threw.  A message with a throttle signal ("too many
\* connections", "login rate", "try again later") sets the host's throttle and
\* leaves the loop; otherwise the loop backs off before its next turn, or
\* ends after maxRetries attempts.  Leaving the loop releases the slot and
\* throws Pop3Error.
ExecError(e, signal) ==
    /\ exec[e].pc = "attempt"
    /\ IF signal
       THEN /\ providerThrottles' =
                [providerThrottles EXCEPT ![exec[e].host] = now + ThrottleTicks]
            /\ ReleaseSlot(e, "failed")
       ELSE IF exec[e].attempt < MaxRetries
       THEN /\ exec' = [exec EXCEPT ![e].pc = "backoff",
                                    ![e].destroyed = @ \cup {exec[e].client}]
            /\ UNCHANGED <<active, queue, providerThrottles, mailSide>>
       ELSE /\ ReleaseSlot(e, "failed")
            /\ UNCHANGED providerThrottles
    /\ UNCHANGED <<storeSide, now, get, sel, mailSide>>

\* The attempt rejected with a value that has no message property (the
\* operation is the caller's: `throw undefined`, `Promise.reject(null)`): the
\* catch block destroys the client and then reads err.message, which throws
\* a TypeError inside the catch block.  Nothing in execute catches it: the
\* exception leaves execute and the releaseSlot after the loop is not run.
ExecCatchThrows(e) ==
    /\ exec[e].pc = "attempt"
    /\ exec' = [exec EXCEPT ![e].pc = "threw",
                            ![e].destroyed = @ \cup {exec[e].client}]
    /\ UNCHANGED <<storeSide, now, active, queue, providerThrottles, get, sel, mailSide>>

\* The backoff timer fired: the next turn of the loop creates a client and
\* connects.
ExecRetry(e) ==
    /\ exec[e].pc = "backoff"
    /\ exec' = [exec EXCEPT ![e].pc = "attempt", ![e].attempt = @ + 1,
                            ![e].client = exec[e].attempt + 1]
    /\ UNCHANGED <<storeSide, now, active, queue, providerThrottles, get, sel, mailSide>>

\* --------------------------------------------------- credential cipher

Bytes == 0..2

Plaintexts == UNION {[1..n -> Bytes] : n \in 0..MaxPlain}

\* encrypt(plaintext) is called.
CryEncrypt ==
    /\ cry.pc = "idle"
    /\ cry' = [cry EXCEPT !.pc = "encrypted", !.blob = encrypt(cry.plaintext)]
    /\ UNCHANGED <<storeSide, now, fetchSide, domains, localDomains, smtp, pop, post, gen>>

\* decrypt(blob) is called on what encrypt returned: it throws an
\* EncryptionError for a blob it takes to be too short, and returns the
\* decrypted text otherwise.
CryDecrypt ==
    /\ cry.pc = "encrypted"
    /\ cry' = IF DecryptFails(cry.blob)
              THEN [cry EXCEPT !.pc = "done", !.failed = TRUE]
              ELSE [cry EXCEPT !.pc = "done", !.out = decrypt(cry.blob)]
    /\ UNCHANGED <<storeSide, now, fetchSide, domains, localDomains, smtp, pop, post, gen>>

\* -------------------------------------------------------- POP3 client

\* Texts are sequences of characters; "r", "n" stand for CR and LF.

\* String.prototype.indexOf: the first position (from 0) where pat occurs.
IndexOfFrom(str, pat, from) ==
    LET hits == {i \in from..(Len(str) - Len(pat)) :
                    \A n \in 1..Len(pat) : str[i + n] = pat[n]}
    IN  IF hits = {} THEN -1
        ELSE CHOOSE i \in hits : \A i2 \in hits : i <= i2

indexOf(str, pat) == IndexOfFrom(str, pat, 0)

\* String.prototype.slice(from, to): a negative index counts from the end.
strSlice(str, from, to) ==
    LET len == Len(str)
        a == IF from < 0 THEN (IF len + from < 0 THEN 0 ELSE len + from)
             ELSE IF from > len THEN len ELSE from
        b == IF to < 0 THEN (IF len + to < 0 THEN 0 ELSE len + to)
             ELSE IF to > len THEN len ELSE to
    IN  SubSeq(str, a + 1, b)

RECURSIVE unstuff(_)
\* body.replace(/\r\n\.\./g, '\r\n.'): every CRLF followed by two dots
\* loses the second dot, matches taken from the left.
unstuff(body) ==
    IF body = << >> THEN << >>
    ELSE IF Len(body) >= 4 /\ SubSeq(body, 1, 4) = <<"r", "n", ".", ".">>
    THEN <<"r", "n", ".">> \o unstuff(SubSeq(body, 5, Len(body)))
    ELSE <<body[1]>> \o unstuff(Tail(body))

\* The lines a stored message can have.
Lines == UNION {[1..n -> {"a", "."}] : n \in 0..MaxLineLen}

Bodies == UNION {[1..n -> Lines] : n \in 0..MaxLines}

RECURSIVE Stuffed(_)
\* The server's side of RFC 1939, section 3: each line, with a dot put
\* before a line that begins with one, and CRLF.
Stuffed(lines) ==
    IF lines = << >> THEN << >>
    ELSE (IF Head(lines) # << >> /\ Head(lines)[1] = "."
          THEN <<".">> \o Head(lines) ELSE Head(lines))
         \o <<"r", "n">> \o Stuffed(Tail(lines))

\* The server's answer to RETR: the status line, the lines, the terminator.
RetrReply(lines) ==
    <<"+", "O", "K", "r", "n">> \o Stuffed(lines) \o <<".", "r", "n">>

\* What _processBuffer does with the buffer in multiline mode once the
\* terminator is in it: the rest of the buffer and the data it resolves with.
Multiline(buffer) ==
    LET terminator == <<"r", "n", ".", "r", "n">>
        endIdx == indexOf(buffer, terminator)
        data == strSlice(buffer, 0, endIdx)
        firstNewline == indexOf(data, <<"r", "n">>)
        statusLine == strSlice(data, 0, firstNewline)
        body == strSlice(data, firstNewline + 2, Len(data))
    IN  [found |-> endIdx # -1,
         rest |-> strSlice(buffer, endIdx + Len(terminator), Len(buffer)),
         status |-> statusLine,
         data |-> unstuff(body)]

\* _processBuffer, one call.  Multiline: nothing until the terminator is in
\* the buffer; then the response is cut out and handed to the waiting
\* promise, if there is one.  Single line: the first line is cut out and
\* settles the waiting promise, if there is one, with no data.
processBuffer(p) ==
    IF p.multiline
    THEN IF ~Multiline(p.buffer).found THEN p
         ELSE [p EXCEPT
                 !.buffer = Multiline(p.buffer).rest,
                 !.multiline = FALSE,
                 !.current = 0,
                 !.result = IF p.current = 0 THEN @
                            ELSE [@ EXCEPT ![p.current] =
                                     [kind |-> "data",
                                      data |-> Multiline(p.buffer).data]]]
    ELSE IF indexOf(p.buffer, <<"r", "n">>) = -1 THEN p
         ELSE [p EXCEPT
                 !.buffer = strSlice(@, indexOf(@, <<"r", "n">>) + 2, Len(@)),
                 !.current = 0,
                 !.result = IF p.current = 0 THEN @
                            ELSE [@ EXCEPT ![p.current] =
                                     [kind |-> IF p.buffer[1] = "-"
                                               THEN "err" ELSE "null",
                                      data |-> << >>]]]

\* connect() is called: the timer is set and the socket is created.
PopConnect ==
    /\ pop.connect = "none"
    /\ pop' = [pop EXCEPT !.connect = "pending", !.timer = TRUE,
                          !.socket = "opening"]
    /\ UNCHANGED <<storeSide, now, fetchSide, domains, localDomains, smtp, cry, post, gen>>

\* onConnect: the TCP or TLS connection is established; the timer is
\* cleared.
PopOnConnect ==
    /\ pop.socket = "opening"
    /\ pop' = [pop EXCEPT !.socket = "open", !.timer = FALSE]
    /\ UNCHANGED <<storeSide, now, fetchSide, domains, localDomains, smtp, cry, post, gen>>

\* onData, first data of the socket: the timer is cleared; a +OK greeting
\* resolves connect(), anything else destroys the socket and rejects.
PopGreeting(ok) ==
    /\ pop.socket = "open"
    /\ ~pop.greeted
    /\ pop' = IF ok
              THEN [pop EXCEPT !.greeted = TRUE, !.timer = FALSE,
                               !.state = "CONNECTED",
                               !.connect = IF @ = "pending" THEN "resolved"
                                           ELSE @]
              ELSE [pop EXCEPT !.greeted = TRUE, !.timer = FALSE,
                               !.socket = "closed",
                               !.connect = IF @ = "pending" THEN "rejected"
                                           ELSE @]
    /\ UNCHANGED <<storeSide, now, fetchSide, domains, localDomains, smtp, cry, post, gen>>

\* The socket's 'error' event before the greeting: the timer is cleared, the
\* state is DISCONNECTED and connect() rejects.
PopSocketError ==
    /\ pop.socket \in {"opening", "open"}
    /\ ~pop.greeted
    /\ pop' = [pop EXCEPT !.timer = FALSE, !.socket = "closed",
                          !.state = "DISCONNECTED",
                          !.connect = IF @ = "pending" THEN "rejected" ELSE @]
    /\ UNCHANGED <<storeSide, now, fetchSide, domains, localDomains, smtp, cry, post, gen>>

\* The socket's 'close' event, the server having closed an established
\* connection: the state is DISCONNECTED and 'close' is emitted.
PopSocketClose ==
    /\ pop.socket = "open"
    /\ pop' = [pop EXCEPT !.socket = "closed", !.state = "DISCONNECTED"]
    /\ UNCHANGED <<storeSide, now, fetchSide, domains, localDomains, smtp, cry, post, gen>>

\* The connect timer fires: the socket is destroyed and connect() rejects.
PopConnectTimer ==
    /\ pop.timer
    /\ pop' = [pop EXCEPT !.timer = FALSE, !.socket = "closed",
                          !.connect = IF @ = "pending" THEN "rejected" ELSE @]
    /\ UNCHANGED <<storeSide, now, fetchSide, domains, localDomains, smtp, cry, post, gen>>

RECURSIVE split(_)
\* String.prototype.split('\r\n').
split(str) ==
    LET at == indexOf(str, <<"r", "n">>) IN
    IF at = -1 THEN <<str>>
    ELSE <<strSlice(str, 0, at)>> \o split(strSlice(str, at + 2, Len(str)))

RECURSIVE trim(_)
\* String.prototype.trim on the blanks of the model.
trim(str) ==
    IF str # << >> /\ Head(str) = " " THEN trim(Tail(str))
    ELSE IF str # << >> /\ str[Len(str)] = " "
    THEN trim(SubSeq(str, 1, Len(str) - 1))
    ELSE str

\* parseInt(str, 10) on the numerals of the model; -1 stands for NaN.
parseInt(str) ==
    IF str # << >> /\ str[1] = "1" THEN 1
    ELSE IF str # << >> /\ str[1] = "2" THEN 2
    ELSE -1

\* uidl(), after its reply: no entry for empty data; otherwise the data is
\* split at CRLF and each line that is not blank gives an entry, its number
\* the text before the first blank and its uid the text after it.
uidl(data) ==
    IF data = << >> THEN << >>
    ELSE LET lines == SelectSeq(split(data), LAMBDA line : trim(line) # << >>)
         IN  [n \in 1..Len(lines) |->
                 LET spaceIdx == indexOf(trim(lines[n]), <<" ">>) IN
                 [num |-> parseInt(strSlice(trim(lines[n]), 0, spaceIdx)),
                  uid |-> strSlice(trim(lines[n]), spaceIdx + 1,
                                   Len(trim(lines[n])))]]

\* The server's answer to UIDL for a mailbox of count messages: the status
\* line, a line "n uid" per message, the terminator.
UidlReply(count) ==
    <<"+", "O", "K", "r", "n">>
    \o (IF count >= 1 THEN <<"1", " ", "p", "r", "n">> ELSE << >>)
    \o (IF count >= 2 THEN <<"2", " ", "q", "r", "n">> ELSE << >>)
    \o <<".", "r", "n">>

\* _sendCommand for a multi-line command: a disconnected client rejects it;
\* otherwise it takes the promise's handlers, sets _multiline and writes the
\* command.
sendCommand(p, c) ==
    IF p.state = "DISCONNECTED"
    THEN [p EXCEPT !.result[c] = [kind |-> "notconnected", data |-> << >>]]
    ELSE [p EXCEPT !.current = c, !.multiline = TRUE, !.sent = Append(@, c)]

\* The fetch operation starts with client.uidl().
PopUidl ==
    /\ pop.current = 0
    /\ pop.result[UIDL].kind = "none"
    /\ pop' = sendCommand(pop, UIDL)
    /\ UNCHANGED <<storeSide, now, fetchSide, domains, localDomains, smtp, cry, post, gen>>

\* The fetch loop calls client.retrieve for entry c of the list uidl()
\* returned: the call for the entry before it has settled (resolved, or
\* rejected and skipped).
PopRetrieve(c) ==
    /\ pop.current = 0
    /\ pop.result[UIDL].kind = "data"
    /\ c <= Len(uidl(pop.result[UIDL].data))
    /\ pop.result[c].kind = "none"
    /\ \A c2 \in Commands : c2 < c => pop.result[c2].kind # "none"
    /\ pop' = sendCommand(pop, c)
    /\ UNCHANGED <<storeSide, now, fetchSide, domains, localDomains, smtp, cry, post, gen>>

\* The server answers the oldest command it has: UIDL with the listing,
\* RETR with the message of the number the client sent, or with -ERR when
\* it has no such message or cannot give it.
PopServerReply(ok) ==
    /\ pop.sent # << >>
    /\ LET c == Head(pop.sent)
           num == IF c = UIDL THEN 0
                  ELSE uidl(pop.result[UIDL].data)[c].num
       IN  /\ ok => (c = UIDL \/ num \in 1..pop.count)
           /\ c = UIDL => ok
           /\ pop' = [pop EXCEPT
                  !.sent = Tail(@),
                  !.replied[c] = IF ok THEN "ok" ELSE "err",
                  !.inflight = @ \o
                      (IF c = UIDL THEN UidlReply(pop.count)
                       ELSE IF ok THEN RetrReply(pop.body[num])
                       ELSE <<"-", "E", "R", "R", "r", "n">>)]
    /\ UNCHANGED <<storeSide, now, fetchSide, domains, localDomains, smtp, cry, post, gen>>

\* A 'data' event: a chunk of what the server sent is added to _buffer and
\* _processBuffer runs once.
PopData(n) ==
    /\ n \in 1..Len(pop.inflight)
    /\ pop' = processBuffer(
                  [pop EXCEPT !.buffer = @ \o SubSeq(pop.inflight, 1, n),
                              !.inflight = SubSeq(@, n + 1, Len(@))])
    /\ UNCHANGED <<storeSide, now, fetchSide, domains, localDomains, smtp, cry, post, gen>>

\* The command timer fires: the handlers are dropped and the promise is
\* rejected; _multiline and _buffer stay as they are.
PopTimeout ==
    /\ pop.current # 0
    /\ pop' = [pop EXCEPT !.current = 0,
                          !.result[pop.current] =
                              [kind |-> "timeout", data |-> << >>]]
    /\ UNCHANGED <<storeSide, now, fetchSide, domains, localDomains, smtp, cry, post, gen>>

\* ------------------------------------------------------- SMTP receiver

\* String.prototype.toLowerCase and SQL LOWER on the letters of the model.
toLowerCase(c) == IF c = "U" THEN "u" ELSE IF c = "X" THEN "x" ELSE c

\* An address is its parts around "@"; lower-casing goes part by part.
Lower(address) == [n \in 1..Len(address) |-> toLowerCase(address[n])]

\* The addresses a client names in RCPT TO; one has no "@".
RcptAddresses ==
    {<<l, d>> : l \in {"u", "U", "v"}, d \in {"x", "X", "y"}} \cup {<<"u">>}

\* email.split('@')[1]: "none" stands for undefined.
DomainOf(address) == IF Len(address) >= 2 THEN address[2] ELSE "none"

\* SELECT domain FROM domains WHERE is_local AND is_active, lower-cased into
\* the new map.
LocalDomainNames ==
    {toLowerCase(domains[d].domain) :
        d \in {d2 \in DomainIds : /\ domains[d2].domain # "none"
                                 /\ domains[d2].is_local
                                 /\ domains[d2].is_active}}

\* refreshLocalDomains, at start and on its timer.
refreshLocalDomains ==
    /\ localDomains' = LocalDomainNames
    /\ UNCHANGED <<storeSide, now, fetchSide, domains, smtp, pop, cry, post, gen>>

\* A lookup that trusts the cache alone.
isLocalDomainAlways(domain) == domain = domain
\* isLocalDomain: the cache has the lower-cased domain.
isLocalDomain(domain) == toLowerCase(domain) \in localDomains

\* findInboxByEmail: the rows the query can return (LIMIT 1 picks one).
findInboxByEmail(emailAddress) ==
    {i \in InboxIds :
        /\ Lower(inboxes[i].email_address) = Lower(emailAddress)
        /\ inboxes[i].status = "active"
        /\ inboxes[i].domain_id # NoDomain
        /\ domains[inboxes[i].domain_id].is_local
        /\ domains[inboxes[i].domain_id].is_active}

\* The domain strings an administrator registers.
DomainNames == {"x", "y"}

\* POST /v1/admin/domains, createDomain: a domain string that is already
\* there is a conflict; the route passes no isLocal, so the row is not local.
CreateDomain(d, name) ==
    /\ domains[d].domain = "none"
    /\ \A d2 \in DomainIds : domains[d2].domain # name
    /\ domains' = [domains EXCEPT ![d] =
                      [domain |-> name, is_local |-> FALSE, is_active |-> TRUE]]
    /\ UNCHANGED <<storeSide, now, fetchSide, localDomains, smtp, pop, cry, post, gen>>

\* DELETE /v1/admin/domains/:id, deleteDomain: inboxes.domain_id references
\* domains(id) with no ON DELETE action, so a referenced row stays.
DeleteDomain(d) ==
    /\ domains[d].domain # "none"
    /\ \A i \in InboxIds : inboxes[i].domain_id # d
    /\ domains' = [domains EXCEPT ![d] = NoDomainRow]
    /\ UNCHANGED <<storeSide, now, fetchSide, localDomains, smtp, pop, cry, post, gen>>

\* getDomainsForGeneration: the active domains among the ids asked for, all
\* active domains when none is asked for.
getDomainsForGeneration(domainIds) ==
    {d \in DomainIds :
        /\ domains[d].domain # "none"
        /\ domains[d].is_active
        /\ domainIds # {} => d \in domainIds}

\* POST /v1/admin/generate (count >= 1).  Without a domain: 400.  Otherwise
\* the transaction inserts the first inbox with its domain_id on its own
\* connection and createToken inserts the token through the pool, on another
\* connection, where the uncommitted inbox row is not there for the foreign
\* key tokens.inbox_id: the statement fails, the handler's transaction is
\* rolled back and nothing of the batch is stored.
AdminGenerate(domainIds) ==
    /\ resp' = [NoResp EXCEPT !.op = "generate",
                              !.code = IF getDomainsForGeneration(domainIds) = {}
                                       THEN 400 ELSE 500]
    /\ UNCHANGED <<inboxes, tokens, messages, attachments, now, job, txMsgs,
                   txAtts, del, rot, fetchSide, mailSide>>

\* PUT /v1/admin/domains/:id with is_active.
UpdateDomain(d, isActive) ==
    /\ domains[d].domain # "none"
    /\ domains[d].is_active # isActive
    /\ domains' = [domains EXCEPT ![d].is_active = isActive]
    /\ UNCHANGED <<storeSide, now, fetchSide, localDomains, smtp, pop, cry, post, gen>>

\* onRcptTo up to its await: the address's domain is looked up in the cache.
\* Without one the recipient is refused as a relay.
SmtpRcptTo(address) ==
    /\ smtp.pc \in {"idle", "rcpt"}
    /\ Len(smtp.rcptTo) < MaxRcpt
    /\ smtp' = IF DomainOf(address) = "none" \/ ~isLocalDomain(DomainOf(address))
               THEN [smtp EXCEPT !.reply = "Relay access denied",
                                 !.address = address, !.pc = "rcpt"]
               ELSE [smtp EXCEPT !.reply = "none", !.address = address,
                                 !.pc = "lookup"]
    /\ UNCHANGED <<storeSide, now, fetchSide, domains, localDomains, pop, cry, post, gen>>

\* The envelope with one more accepted address; the server keeps one entry
\* per lower-cased address.
addRcpt(rcptTo, address) ==
    IF \E n \in 1..Len(rcptTo) : Lower(rcptTo[n]) = Lower(address)
    THEN [n \in 1..Len(rcptTo) |->
             IF Lower(rcptTo[n]) = Lower(address) THEN address ELSE rcptTo[n]]
    ELSE Append(rcptTo, address)

\* inboxMap.set(key, inbox).
mapSet(map, key, inbox) ==
    [a \in DOMAIN map \cup {key} |-> IF a = key THEN inbox ELSE map[a]]

\* onRcptTo after findInboxByEmail answered: without a row the recipient is
\* unknown; with one it is put in inboxMap under the lower-cased address and
\* the recipient is accepted.
SmtpRcptLookup ==
    /\ smtp.pc = "lookup"
    /\ \/ /\ findInboxByEmail(smtp.address) = {}
          /\ smtp' = [smtp EXCEPT !.reply = "Unknown recipient", !.pc = "rcpt"]
       \/ \E i \in findInboxByEmail(smtp.address) :
              smtp' = [smtp EXCEPT
                         !.inboxMap = mapSet(@, Lower(smtp.address), i),
                         !.rcptTo = addRcpt(@, smtp.address),
                         !.reply = "ok", !.pc = "rcpt"]
    /\ UNCHANGED <<storeSide, now, fetchSide, domains, localDomains, pop, cry, post, gen>>

\* The uid of the message stored for the k-th recipient ('smtp-' and a
\* fresh UUID).
SessionUid(k) == 200 + k

\* onData, end of stream: a message over the maximum is refused; one that
\* simpleParser cannot parse is refused; otherwise the delivery loop starts.
SmtpDataEnd(totalSize, parses) ==
    /\ smtp.pc = "rcpt"
    /\ smtp.rcptTo # << >>
    /\ smtp' = IF totalSize > MaxMessageSize
               THEN [smtp EXCEPT !.pc = "done",
                                 !.reply = "Message exceeds maximum size"]
               ELSE IF ~parses
               THEN [smtp EXCEPT !.pc = "done",
                                 !.reply = "Message processing failed"]
               ELSE [smtp EXCEPT !.pc = "deliver", !.reply = "none", !.k = 1]
    /\ UNCHANGED <<storeSide, now, fetchSide, domains, localDomains, pop, cry, post, gen>>

\* The reply after the delivery loop.
dataReply(delivered) ==
    IF delivered = 0 THEN "Failed to deliver to any recipient" ELSE "ok"

\* A delivery loop without the inner try: the first storage failure ends it
\* with a failure reply.
SmtpDeliverAbortOnError(stored) ==
    /\ smtp.pc = "deliver"
    /\ LET k == smtp.k
           email == Lower(smtp.rcptTo[k])
           last == ~stored \/ k = Len(smtp.rcptTo)
           delivered == smtp.delivered + (IF stored THEN 1 ELSE 0)
       IN  /\ messages' = IF stored
                   THEN messages \cup
                        {[id |-> <<0, k>>, inbox_id |-> smtp.inboxMap[email],
                          uid |-> SessionUid(k), fetched_at |-> now]}
                   ELSE messages
           /\ smtp' = [smtp EXCEPT
                   !.delivered = delivered,
                   !.k = k + 1,
                   !.pc = IF last THEN "done" ELSE "deliver",
                   !.reply = IF ~stored THEN "Message processing failed"
                             ELSE IF last THEN dataReply(delivered) ELSE @]
    /\ UNCHANGED <<inboxes, tokens, attachments, job, txMsgs, txAtts, del, rot,
                   resp, now, fetchSide, domains, localDomains, pop, cry, post, gen>>
\* One turn of the delivery loop: storeIncomingMessage for the next
\* recipient's inbox commits its message (stored) or throws, which is logged;
\* after the last recipient the reply follows from the counter.  The message
\* has no attachment.
SmtpDeliver(stored) ==
    /\ smtp.pc = "deliver"
    /\ LET k == smtp.k
           email == Lower(smtp.rcptTo[k])
           hasInbox == email \in DOMAIN smtp.inboxMap
           last == k = Len(smtp.rcptTo)
           delivered == smtp.delivered + (IF hasInbox /\ stored THEN 1 ELSE 0)
       IN  /\ messages' = IF hasInbox /\ stored
                   THEN messages \cup
                        {[id |-> <<0, k>>, inbox_id |-> smtp.inboxMap[email],
                          uid |-> SessionUid(k), fetched_at |-> now]}
                   ELSE messages
           /\ smtp' = [smtp EXCEPT
                   !.delivered = delivered,
                   !.k = k + 1,
                   !.pc = IF last THEN "done" ELSE "deliver",
                   !.reply = IF last THEN dataReply(delivered) ELSE @]
    /\ UNCHANGED <<inboxes, tokens, attachments, job, txMsgs, txAtts, del, rot,
                   resp, now, fetchSide, domains, localDomains, pop, cry, post, gen>>

\* ------------------------------------------ GET /v1/inboxes/:id/messages

\* The sequences of distinct members of rows, of length n.
Arrangements(rows, n) ==
    {f \in [1..n -> rows] : \A a, b \in 1..n : a # b => f[a] # f[b]}

\* ORDER BY fetched_at ASC LIMIT limit over rows: the rows come in ascending
\* fetched_at, rows with equal values in any order, and a row that is left
\* out is not before a row that is returned.
OrderByFetchedAtLimit(rows, limit) ==
    {f \in Arrangements(rows, IF Cardinality(rows) < limit
                              THEN Cardinality(rows) ELSE limit) :
        /\ \A a, b \in 1..Len(f) : a < b => f[a].fetched_at <= f[b].fetched_at
        /\ \A r \in rows :
               (\A a \in 1..Len(f) : f[a] # r) =>
                   \A a \in 1..Len(f) : f[a].fetched_at <= r.fetched_at}

\* getMessages: the results the two queries can give.  With a sinceUid whose
\* row exists, the rows whose fetched_at is greater than that row's; without
\* one, or when no row has the uid, the rows from the start.
getMessages(inboxId, sinceUid, limit) ==
    LET mine == {m \in messages : m.inbox_id = inboxId}
        cursor == {m \in mine : m.uid = sinceUid}
    IN  IF sinceUid # NoUid /\ cursor # {}
        THEN OrderByFetchedAtLimit(
                 {m \in mine : \E c \in cursor : m.fetched_at > c.fetched_at},
                 limit)
        ELSE OrderByFetchedAtLimit(mine, limit)

\* The uids of a result, in its order.
Uids(rows) == [n \in 1..Len(rows) |-> rows[n].uid]

\* What a reader who pages through the inbox passes as since_uid: nothing on
\* the first page, then the uid of the last message it was given.
NextSince == IF get.seen = << >> THEN {NoUid} ELSE {NoUid, get.seen[Len(get.seen)]}

\* The handler starts, the preHandler chain having let the request through.
\* With fetch_new it reads the inbox row and enqueues a fetch job, which is
\* job j of the worker queue; without, it goes on to read the stored
\* messages.  A since_uid of none starts the reader's walk anew.
GetBegin(i, since, limit, fetchNew, j) ==
    /\ get.pc \in {"idle", "done"}
    /\ inboxes[i].status = "active"
    /\ since \in NextSince
    /\ since # NoUid => get.inbox = i
    /\ fetchNew => job[j].pc = "idle"
    /\ ~fetchNew => j = 0
    /\ get' = [pc |-> IF fetchNew THEN "waiting" ELSE "read",
               inbox |-> i, job |-> j, since |-> since, limit |-> limit,
               page |-> << >>,
               seen |-> IF since = NoUid THEN << >> ELSE get.seen]
    /\ UNCHANGED <<storeSide, now, active, queue, providerThrottles, exec, sel, mailSide>>

\* A handler that lets the rejection of enqueueFetch through: the request
\* ends with the error handler's response.
GetSettledNoCatch ==
    /\ get.pc = "waiting"
    /\ job[get.job].pc \in {"done", "failed"}
    /\ get' = [get EXCEPT !.pc = IF job[get.job].pc = "failed"
                                 THEN "done" ELSE "read"]
    /\ resp' = IF job[get.job].pc = "failed"
               THEN [NoResp EXCEPT !.op = "messages", !.code = 502,
                                   !.inbox = get.inbox]
               ELSE resp
    /\ UNCHANGED <<inboxes, tokens, messages, attachments, job, txMsgs,
                   txAtts, del, rot, now, active, queue, providerThrottles,
                   exec, sel, mailSide>>
\* await enqueueFetch settles: the job returned, or it threw and the catch
\* logs a warning; either way the handler goes on.
GetSettled ==
    /\ get.pc = "waiting"
    /\ job[get.job].pc \in {"done", "failed"}
    /\ get' = [get EXCEPT !.pc = "read"]
    /\ resp' = resp
    /\ UNCHANGED <<inboxes, tokens, messages, attachments, job, txMsgs,
                   txAtts, del, rot, now, active, queue, providerThrottles,
                   exec, sel, mailSide>>

\* getMessages(id, {sinceUid, limit}) and the 200 response with the rows.
GetRespond ==
    /\ get.pc = "read"
    /\ \E rows \in getMessages(get.inbox, get.since, get.limit) :
           get' = [get EXCEPT !.pc = "done", !.page = Uids(rows),
                              !.seen = @ \o Uids(rows)]
    /\ resp' = [NoResp EXCEPT !.op = "messages", !.code = 200,
                              !.inbox = get.inbox]
    /\ UNCHANGED <<inboxes, tokens, messages, attachments, job, txMsgs,
                   txAtts, del, rot, now, active, queue, providerThrottles,
                   exec, sel, mailSide>>

\* ------------------------------------------------- GET /v1/admin/export

\* The password column of one exported entry: '' for an empty blob,
\* '<decryption-failed>' (here <<0 - 1>>) when decrypt throws.
ExportedPassword(blob) ==
    IF blob = << >> THEN << >>
    ELSE IF DecryptFails(blob) THEN <<0 - 1>>
    ELSE decrypt(blob)

\* The handler selects the generated inboxes (the active ones unless
\* status=all), decrypts each password and returns the entries.
AdminExport(status) ==
    /\ \E i \in InboxIds : inboxes[i].inbox_type = "generated"
    /\ resp' = [NoResp EXCEPT
            !.op = "export", !.code = 200,
            !.passwords =
                {[inbox |-> i,
                  password |-> ExportedPassword(inboxes[i].pop3_password_enc)] :
                 i \in {x \in InboxIds :
                          /\ inboxes[x].inbox_type = "generated"
                          /\ status = "all" \/ inboxes[x].status = "active"}}]
    /\ UNCHANGED <<inboxes, tokens, messages, attachments, now, job, txMsgs,
                   txAtts, del, rot,
                   fetchSide, mailSide>>

\* ---------------------------------------------------------- specifications

DeleteSteps(i) ==
    \/ \E hdr \in Headers : DelAuth(i, hdr)
    \/ DelCheck(i)
    \/ DelAttachments(i)
    \/ DelMessages(i)
    \/ DelRevoke(i)
    \/ DelUpdate(i)
    \/ DelCommit(i)
    \/ DelFail(i)

\* Ingestion into one inbox by two fetch jobs and an SMTP delivery, with the
\* inbox's DELETE request.
IngestInboxes == {1}

NextIngest ==
    \/ \E i \in IngestInboxes, mode \in {"external", "generated"}, ttl \in 1..MaxTtl :
           CreateInbox(i, mode, ttl)
    \/ \E j \in Jobs, i \in IngestInboxes : FetchResolve(j, i)
    \/ \E j \in Jobs, b \in Batches, outcome \in SessionOutcomes :
           FetchSession(j, b, outcome)
    \/ \E j \in Jobs, i \in IngestInboxes : SmtpRcpt(j, i)
    \/ \E j \in Jobs : SmtpData(j)
    \/ \E j \in Jobs : StoreInsert(j)
    \/ \E j \in Jobs : StoreCommit(j)
    \/ \E j \in Jobs : StoreFail(j)
    \/ \E j \in Jobs : FetchAdvance(j)
    \/ \E i \in IngestInboxes : DeleteSteps(i)

SpecIngest == Init /\ [][NextIngest]_vars

RotateSteps(r, i) ==
    \/ \E hdr \in Headers : RotAuth(r, hdr, i)
    \/ RotRevoke(r)
    \/ \E ttl \in 1..MaxTtl : RotCreate(r, ttl)

\* Requests on the guarded routes against two inboxes, with one rotation
\* and the DELETE of the first inbox, the expiry sweep and the clock.
NextAuth ==
    \/ \E i \in InboxIds, ttl \in 1..MaxTtl : CreateInbox(i, "external", ttl)
    \/ \E hdr \in Headers, id \in InboxIds : AuthRequest(hdr, id)
    \/ RotateSteps("r1", 1)
    \/ cleanExpiredTokens
    \/ Tick
    \/ DeleteSteps(1)

SpecAuth == Init /\ [][NextAuth]_vars

\* Rotations of one inbox's token by two concurrent requests.
NextRotate ==
    \/ \E ttl \in 1..MaxTtl : CreateInbox(1, "external", ttl)
    \/ \E r \in RotReqs : RotateSteps(r, 1)
    \/ Tick

SpecRotate == Init /\ [][NextRotate]_vars

\* The admin export next to inbox creation and deletion.
NextExport ==
    \/ \E i \in InboxIds, mode \in {"external", "generated"}, ttl \in 1..MaxTtl :
           CreateInbox(i, mode, ttl)
    \/ \E i \in InboxIds : DeleteSteps(i)
    \/ \E status \in {"active", "all"} : AdminExport(status)

SpecExport == Init /\ [][NextExport]_vars

\* Calls of pop3Pool.execute against the cap, with the clock.
NextPool ==
    \/ \E e \in Execs, host \in Hosts : ExecCall(e, host)
    \/ \E e \in Execs : ExecConnect(e)
    \/ \E e \in Execs : ExecSucceed(e)
    \/ \E e \in Execs, signal \in BOOLEAN : ExecError(e, signal)
    \/ \E e \in Execs : ExecRetry(e)
    \/ \E e \in Execs : ExecCatchThrows(e)
    \/ Tick

SpecPool == Init /\ [][NextPool]_vars

\* The same under the scheduling of the event loop: a granted slot's
\* continuation runs, a backoff timer fires, and an attempt ends (connect and
\* every command carry a timer that rejects them).
PoolFairness ==
    \A e \in Execs :
        /\ WF_vars(ExecConnect(e))
        /\ WF_vars(ExecRetry(e))
        /\ WF_vars(ExecSucceed(e) \/ ExecCatchThrows(e)
                      \/ \E signal \in BOOLEAN : ExecError(e, signal))

SpecPoolFair == Init /\ [][NextPool]_vars /\ PoolFairness

\* A reader pages through inbox 1 while fetch jobs started by its requests
\* and an SMTP delivery store messages.
NextMessages ==
    \/ \E ttl \in 1..MaxTtl : CreateInbox(1, "external", ttl)
    \/ \E since \in NextSince, limit \in 1..MaxLimit :
           GetBegin(1, since, limit, FALSE, 0)
    \/ \E since \in NextSince, limit \in 1..MaxLimit, j \in FetchJobs :
           GetBegin(1, since, limit, TRUE, j)
    \/ \E j \in FetchJobs :
           get.pc = "waiting" /\ get.job = j /\ FetchResolve(j, get.inbox)
    \/ \E j \in Jobs, b \in Batches, outcome \in SessionOutcomes :
           FetchSession(j, b, outcome)
    \/ \E j \in Jobs : SmtpRcpt(j, 1)
    \/ \E j \in Jobs : SmtpData(j)
    \/ \E j \in Jobs : StoreInsert(j)
    \/ \E j \in Jobs : StoreCommit(j)
    \/ \E j \in Jobs : StoreFail(j)
    \/ \E j \in Jobs : FetchAdvance(j)
    \/ GetSettled
    \/ GetRespond

SpecMessages == Init /\ [][NextMessages]_vars

\* The same with the clock, which gives transactions different start times.
NextPage ==
    \/ NextMessages
    \/ Tick

SpecPage == Init /\ [][NextPage]_vars

\* The tables as provisioned for local mail: domain 1 is "x" or "X", local or
\* not; domain 2 is "y" and local; inbox 1 is u@x or U@x, active or deleted,
\* bound to domain 1 or to none; inbox 2 is v@y, bound to domain 2 (rows as
\* the bulk generation inserts them, its token aside).  The receiver has
\* loaded its cache.
InitSmtp ==
    /\ \E name \in {"x", "X"}, isLocal \in BOOLEAN :
           domains = [d \in DomainIds |->
               IF d = 1
               THEN [domain |-> name, is_local |-> isLocal, is_active |-> TRUE]
               ELSE [domain |-> "y", is_local |-> TRUE, is_active |-> TRUE]]
    /\ \E local \in {"u", "U"}, status \in {"active", "deleted"},
          dom \in {NoDomain, 1} :
           inboxes = [i \in InboxIds |->
               [NoInboxRow EXCEPT
                   !.status = IF i = 1 THEN status ELSE "active",
                   !.inbox_type = "generated",
                   !.pop3_username_enc = encrypt(Username(i)),
                   !.pop3_password_enc = encrypt(Password(i)),
                   !.email_address = IF i = 1 THEN <<local, "x">> ELSE Email(i),
                   !.domain_id = IF i = 1 THEN dom ELSE 2]]
    /\ localDomains = LocalDomainNames
    /\ tokens = {}
    /\ messages = {}
    /\ attachments = {}
    /\ now = 0
    /\ job = [j \in Jobs |-> IdleJob]
    /\ txMsgs = [j \in Jobs |-> {}]
    /\ txAtts = [j \in Jobs |-> {}]
    /\ del = [i \in InboxIds |-> IdleDel]
    /\ rot = [r \in RotReqs |-> IdleRot]
    /\ resp = NoResp
    /\ active = 0
    /\ queue = << >>
    /\ providerThrottles = [h \in Hosts |-> 0]
    /\ exec = [e \in Execs |-> IdleExec]
    /\ get = IdleGet
    /\ sel = NoSel
    /\ smtp = NoSession
    /\ pop = NoPop
    /\ cry = NoCry
    /\ post = [q \in PostReqs |-> IdlePost]
    /\ gen = IdleGen

\* One SMTP transaction, while an admin switches domains off and on and the
\* cache is refreshed on its timer.
NextSmtp ==
    \/ \E address \in RcptAddresses : SmtpRcptTo(address)
    \/ SmtpRcptLookup
    \/ \E totalSize \in 1..(MaxMessageSize + 1), parses \in BOOLEAN :
           SmtpDataEnd(totalSize, parses)
    \/ \E stored \in BOOLEAN : SmtpDeliver(stored)
    \/ \E d \in DomainIds, isActive \in BOOLEAN : UpdateDomain(d, isActive)
    \/ refreshLocalDomains

SpecSmtp == InitSmtp /\ [][NextSmtp]_vars

\* One plaintext, encrypted and decrypted again.
InitCrypto ==
    /\ inboxes = [i \in InboxIds |-> NoInboxRow]
    /\ tokens = {}
    /\ messages = {}
    /\ attachments = {}
    /\ now = 0
    /\ job = [j \in Jobs |-> IdleJob]
    /\ txMsgs = [j \in Jobs |-> {}]
    /\ txAtts = [j \in Jobs |-> {}]
    /\ del = [i \in InboxIds |-> IdleDel]
    /\ rot = [r \in RotReqs |-> IdleRot]
    /\ resp = NoResp
    /\ active = 0
    /\ queue = << >>
    /\ providerThrottles = [h \in Hosts |-> 0]
    /\ exec = [e \in Execs |-> IdleExec]
    /\ get = IdleGet
    /\ sel = NoSel
    /\ domains = [d \in DomainIds |-> NoDomainRow]
    /\ localDomains = {}
    /\ smtp = NoSession
    /\ pop = NoPop
    /\ \E p \in Plaintexts : cry = [NoCry EXCEPT !.plaintext = p]
    /\ post = [q \in PostReqs |-> IdlePost]
    /\ gen = IdleGen

NextCrypto ==
    \/ CryEncrypt
    \/ CryDecrypt

SpecCrypto == InitCrypto /\ [][NextCrypto]_vars

\* Domain administration and inbox creation.
NextGenerate ==
    \/ \E d \in DomainIds, name \in DomainNames : CreateDomain(d, name)
    \/ \E d \in DomainIds, isActive \in BOOLEAN : UpdateDomain(d, isActive)
    \/ \E d \in DomainIds : DeleteDomain(d)
    \/ \E domainIds \in SUBSET DomainIds : AdminGenerate(domainIds)
    \/ \E i \in InboxIds, mode \in {"external", "generated"},
          ttl \in 1..MaxTtl :
           CreateInbox(i, mode, ttl)

SpecGenerate == Init /\ [][NextGenerate]_vars

\* An authenticated client at the start of the fetch operation, against a
\* mailbox of up to two messages; message 2 is the line "b", message 1 is any
\* of Bodies.
InitPop ==
    /\ inboxes = [i \in InboxIds |-> NoInboxRow]
    /\ tokens = {}
    /\ messages = {}
    /\ attachments = {}
    /\ now = 0
    /\ job = [j \in Jobs |-> IdleJob]
    /\ txMsgs = [j \in Jobs |-> {}]
    /\ txAtts = [j \in Jobs |-> {}]
    /\ del = [i \in InboxIds |-> IdleDel]
    /\ rot = [r \in RotReqs |-> IdleRot]
    /\ resp = NoResp
    /\ active = 0
    /\ queue = << >>
    /\ providerThrottles = [h \in Hosts |-> 0]
    /\ exec = [e \in Execs |-> IdleExec]
    /\ get = IdleGet
    /\ sel = NoSel
    /\ domains = [d \in DomainIds |-> NoDomainRow]
    /\ localDomains = {}
    /\ smtp = NoSession
    /\ \E lines \in Bodies, count \in 0..Cardinality(Commands) :
           pop = [NoPop EXCEPT !.connect = "resolved", !.socket = "open",
                               !.greeted = TRUE,
                               !.state = "AUTHENTICATED",
                               !.count = count,
                               !.body = [c \in Commands |->
                                   IF c = 1 THEN lines ELSE <<<<"b">>>>]]
    /\ cry = NoCry
    /\ post = [q \in PostReqs |-> IdlePost]
    /\ gen = IdleGen

\* A new client, with the mailbox it is going to read.
InitConnect ==
    /\ inboxes = [i \in InboxIds |-> NoInboxRow]
    /\ tokens = {}
    /\ messages = {}
    /\ attachments = {}
    /\ now = 0
    /\ job = [j \in Jobs |-> IdleJob]
    /\ txMsgs = [j \in Jobs |-> {}]
    /\ txAtts = [j \in Jobs |-> {}]
    /\ del = [i \in InboxIds |-> IdleDel]
    /\ rot = [r \in RotReqs |-> IdleRot]
    /\ resp = NoResp
    /\ active = 0
    /\ queue = << >>
    /\ providerThrottles = [h \in Hosts |-> 0]
    /\ exec = [e \in Execs |-> IdleExec]
    /\ get = IdleGet
    /\ sel = NoSel
    /\ domains = [d \in DomainIds |-> NoDomainRow]
    /\ localDomains = {}
    /\ smtp = NoSession
    /\ \E lines \in Bodies, count \in 0..Cardinality(Commands) :
           pop = [NoPop EXCEPT !.count = count,
                               !.body = [c \in Commands |->
                                   IF c = 1 THEN lines ELSE <<<<"b">>>>]]
    /\ cry = NoCry
    /\ post = [q \in PostReqs |-> IdlePost]
    /\ gen = IdleGen

\* connect() and the events of its socket.
NextConnect ==
    \/ PopConnect
    \/ PopOnConnect
    \/ \E ok \in BOOLEAN : PopGreeting(ok)
    \/ PopSocketError
    \/ PopSocketClose
    \/ PopConnectTimer

\* A timer that is pending fires; the server and the network owe nothing.
SpecConnect == InitConnect /\ [][NextConnect]_vars /\ WF_vars(PopConnectTimer)

\* The fetch loop against a server that answers every command in time.
NextRetr ==
    \/ PopUidl
    \/ \E c \in Commands : PopRetrieve(c)
    \/ \E ok \in BOOLEAN : PopServerReply(ok)
    \/ \E n \in 1..(MaxLines * (MaxLineLen + 3) + 8) : PopData(n)

SpecRetr == InitPop /\ [][NextRetr]_vars

\* The same with command timeouts.
NextPop ==
    \/ NextRetr
    \/ PopTimeout

SpecPop == InitPop /\ [][NextPop]_vars

\* ------------------------------------------------------------------ claims

MessagesOf(i) == {m \in messages : m.inbox_id = i}

AttachmentsOf(i) == {a \in attachments : a.inbox_id = i}

\* The committed rows job j's storeMessages call wrote.
RowsBy(j) == {m \in messages : m.id[1] = j}

AttsBy(j) == {a \in attachments : a.id[1] = j}

\* C1: whatever storeMessages calls ran and however they interleaved, the
\* messages table holds at most one row per (inbox, uid); every stored
\* message has exactly one copy of each of its attachments, written by the
\* call that inserted the message row; no attachment row belongs to any
\* other call or to no message.  (A re-ingested (inbox, uid) therefore adds
\* neither a message row nor an attachment row.)
C1_IdempotentIngestion ==
    /\ \A m1 \in messages : \A m2 \in messages :
           (m1.inbox_id = m2.inbox_id /\ m1.uid = m2.uid) => m1 = m2
    /\ \A m \in messages : \A n \in 1..AttCount(m.uid) :
           Cardinality({a \in attachments :
                            a.message_id = m.id /\ a.idx = n}) = 1
    /\ \A a \in attachments : \E m \in messages :
           /\ a.message_id = m.id
           /\ a.inbox_id = m.inbox_id
           /\ a.id[1] = m.id[1]
           /\ a.idx \in 1..AttCount(m.uid)

\* C1 witness: a fetch job has committed a batch holding a uid whose message
\* row, with an attachment, was inserted earlier by another call.
C1_Witness ==
    \E j \in FetchJobs :
        /\ job[j].pc = "stored"
        /\ \E k \in 1..Len(job[j].batch) : \E m \in messages :
               /\ m.inbox_id = job[j].inbox
               /\ m.uid = job[j].batch[k]
               /\ m.id[1] # j
               /\ AttCount(m.uid) > 0
               /\ \E a \in attachments : a.message_id = m.id

DeletePostcondition(i) ==
    /\ MessagesOf(i) = {}
    /\ AttachmentsOf(i) = {}
    /\ ActiveTokens(i) = {}
    /\ \A t \in tokens :
           (t.inbox_id = i /\ t.status = "revoked") => t.revoked_at >= 0
    /\ inboxes[i].status = "deleted"
    /\ inboxes[i].pop3_username_enc = << >>
    /\ inboxes[i].pop3_password_enc = << >>

\* C2: when the transaction of deleteInbox(i) commits, the state it leaves
\* has no message row and no attachment row of inbox i, no active token of
\* it, status deleted and both credential blobs empty.
C2_DeleteCommitPostcondition ==
    [][\A i \in InboxIds :
          (del[i].pc = "updated" /\ del'[i].pc = "done")
              => DeletePostcondition(i)']_vars

\* C3: in every reachable state an inbox whose status is deleted has no
\* message rows and no attachment rows.
C3_DeletedInboxHasNoMail ==
    \A i \in InboxIds :
        inboxes[i].status = "deleted"
            => (MessagesOf(i) = {} /\ AttachmentsOf(i) = {})

\* C10: storeMessages is atomic per call.  While a call's transaction is
\* open, and after it failed, none of its message or attachment rows is in
\* the tables; rows of a call appear only in the step that commits its
\* transaction, and then all the rows it inserted appear together.
C10_StoreAtomic ==
    /\ [](\A j \in Jobs :
            job[j].pc \in {"idle", "resolved", "tx", "failed"}
                => (RowsBy(j) = {} /\ AttsBy(j) = {}))
    /\ [][\A j \in Jobs :
            (~(RowsBy(j)' \subseteq RowsBy(j)) \/ ~(AttsBy(j)' \subseteq AttsBy(j)))
                => /\ InTx(j)
                   /\ job'[j].pc \in {"stored", "done"}
                   /\ RowsBy(j)' = txMsgs[j]
                   /\ AttsBy(j)' = txAtts[j]]_vars

\* C10 witness: a call that inserted two messages, one with attachments, has
\* committed and all of its rows are in the tables.
C10_Witness ==
    \E j \in FetchJobs :
        /\ job[j].pc = "stored"
        /\ Cardinality(RowsBy(j)) = 2
        /\ AttsBy(j) # {}

\* ----------------------------------------------------- claims on tokens

Bearer(raw) == [kind |-> "bearer", token |-> raw]

\* The raw tokens whose hash a token row holds.
RawOf(t) == {raw \in RawTokens : hashToken(raw) = t.token_hash}

\* The request of the response last sent by a guarded route.
RespHeader == [kind |-> resp.kind, token |-> resp.token]

\* A step in which a guarded route answered a request.
AuthStep == resp'.op = "auth" /\ resp' # resp

\* C4: once a rotation of an inbox's token has returned T2, a request that
\* presents a token issued earlier for that inbox is rejected with 401
\* whatever its path id; and T2 is admitted on its inbox's path while it has
\* not expired, the inbox is active and no other rotation has got past its
\* revocation since.
C4_RotationInvalidatesOlder ==
    \A r \in RotReqs : \A t2 \in tokens :
        (rot[r].pc = "done" /\ t2.token_hash = hashToken(rot[r].token)) =>
            /\ \A t \in tokens : \A raw \in RawOf(t) : \A id \in InboxIds :
                   (t.inbox_id = t2.inbox_id /\ t.id < t2.id)
                       => PreHandler(Bearer(raw), id).code = 401
            /\ ( /\ t2.expires_at >= now
                 /\ inboxes[t2.inbox_id].status = "active"
                 /\ \A r2 \in RotReqs \ {r} :
                        \/ rot[r2].pc \in {"idle", "authed"}
                        \/ /\ rot[r2].pc = "done"
                           /\ \E t \in tokens :
                                  /\ t.token_hash = hashToken(rot[r2].token)
                                  /\ t.id < t2.id )
                   => Admitted(Bearer(rot[r].token), t2.inbox_id)

\* C5: in every reachable state, whatever rotations ran and however they
\* interleaved, at most one token row of an inbox has status active.
C5_AtMostOneActiveToken ==
    \A i \in InboxIds : Cardinality(ActiveTokens(i)) <= 1

\* What C6 requires of an admitted request, in the state of the check.
AdmitCondition(hdr, id) ==
    /\ hdr.kind = "bearer"
    /\ \E t \in tokens :
           /\ t.token_hash = hashToken(hdr.token)
           /\ t.status = "active"
           /\ t.expires_at >= now
           /\ inboxes[t.inbox_id].status = "active"
           /\ id = t.inbox_id

\* C6: the preHandler chain admits a request only if a token row with the
\* hash of the presented bearer token exists, its status is active, its
\* expires_at is not earlier than now, its inbox is active and the path id
\* is the token's inbox id.  This holds of the chain in every reachable
\* state, of every request a guarded route answers with 200 (the inbox
\* attached is then the path id), and of every request let through to the
\* rotate and delete handlers.
C6_AdmitOnlyIf ==
    /\ [](\A hdr \in Headers : \A id \in InboxIds :
             Admitted(hdr, id) => AdmitCondition(hdr, id))
    /\ [][ /\ (AuthStep /\ resp'.code = 200) =>
                /\ AdmitCondition([kind |-> resp'.kind, token |-> resp'.token],
                                  resp'.path)
                /\ resp'.inbox = resp'.path
           /\ \A r \in RotReqs :
                (rot[r].pc = "idle" /\ rot'[r].pc = "authed") =>
                    \E hdr \in Headers : AdmitCondition(hdr, rot'[r].inbox)
           /\ \A i \in InboxIds :
                (del[i].pc = "idle" /\ del'[i].pc = "authed") =>
                    \E hdr \in Headers : AdmitCondition(hdr, i) ]_vars

\* C6 witness: a request was admitted with a token that expires at this very
\* instant, next to a token of the same inbox that is revoked.
C6_Witness ==
    /\ resp.op = "auth"
    /\ resp.code = 200
    /\ AdmitCondition(RespHeader, resp.path)
    /\ \E t \in tokens :
           t.token_hash = hashToken(resp.token) /\ t.expires_at = now
    /\ \E t \in tokens : t.inbox_id = resp.path /\ t.status = "revoked"

\* The documented outcome of the preHandler chain, the conditions taken in
\* the documented order.
DocumentedCode(hdr, id) ==
    LET rows == {t \in tokens : t.token_hash = hashToken(hdr.token)} IN
    IF hdr.kind # "bearer" THEN 401
    ELSE IF rows = {} THEN 401
    ELSE IF \E t \in rows : t.status # "active" THEN 401
    ELSE IF \E t \in rows : t.expires_at < now THEN 401
    ELSE IF \E t \in rows : inboxes[t.inbox_id].status # "active" THEN 403
    ELSE IF \E t \in rows : t.inbox_id # id THEN 403
    ELSE 200

\* C7: every request gets the documented outcome: 401 for a missing or
\* malformed header, an unknown token hash, a token whose status is not
\* active, a token whose expires_at is before now; 403 for an inbox that is
\* not active and for a path id that is not the token's inbox; the first
\* condition that applies, in that order, decides.  The step that answers a
\* request changes no row of the store.
C7_RejectionsDocumented ==
    /\ [](\A hdr \in Headers : \A id \in InboxIds :
             PreHandler(hdr, id).code = DocumentedCode(hdr, id))
    /\ [][AuthStep =>
            /\ resp'.code =
                   DocumentedCode([kind |-> resp'.kind, token |-> resp'.token],
                                  resp'.path)
            /\ resp'.code # 200 => resp'.inbox = 0
            /\ UNCHANGED <<inboxes, tokens, messages, attachments, mailSide>>]_vars

\* C7 witness: a request was refused with 403 on the path of its own inbox:
\* its token is active and not expired, the inbox is deleted.
C7_Witness ==
    /\ resp.op = "auth"
    /\ resp.code = 403
    /\ \E t \in tokens :
           /\ t.token_hash = hashToken(resp.token)
           /\ t.inbox_id = resp.path
           /\ t.status = "active"
           /\ t.expires_at >= now
           /\ inboxes[t.inbox_id].status = "deleted"

\* C8: no response sent after an inbox was created carries that inbox's
\* mailbox password.
C8_PasswordNeverReturned ==
    \A i \in InboxIds :
        inboxes[i].status # "none" =>
            \A e \in resp.passwords :
                ~(e.inbox = i /\ e.password = Password(i))

\* C9: every token row holds the SHA-256 digest of the JWT issued with it and
\* never a raw token; a request is admitted only if a row holds the hash of
\* the token it presents, and presenting what a row holds admits nothing.
C9_OnlyHashesStored ==
    /\ \A t \in tokens :
           /\ t.token_hash \notin RawTokens
           /\ t.token_hash = hashToken(signToken(t.id))
           /\ \A id \in InboxIds : ~Admitted(Bearer(t.token_hash), id)
    /\ \A hdr \in Headers : \A id \in InboxIds :
           Admitted(hdr, id) =>
               \E t \in tokens : t.token_hash = hashToken(hdr.token)
    /\ resp.op \in {"create", "rotate"} =>
           \E t \in tokens : /\ t.token_hash = hashToken(resp.token)
                             /\ t.token_hash # resp.token

\* C9 witness: a request presenting the raw token handed out by a rotation
\* was admitted; the row found holds its hash.
C9_Witness ==
    /\ resp.op = "auth"
    /\ resp.code = 200
    /\ rot["r1"].pc = "done"
    /\ rot["r1"].token = resp.token
    /\ \E t \in tokens : t.token_hash = hashToken(resp.token)

\* -------------------------------------------------- claims on the POP3 pool

\* The executions that hold a slot: they took one and have not released it.
Holders ==
    {e \in Execs :
        exec[e].pc \in {"ready", "woken", "attempt", "backoff", "threw"}}

\* C11: in every reachable state of the pool _active is at least 0 and at
\* most MAX_CONCURRENT, and it is the number of executions holding a slot.
C11_ActiveWithinCap ==
    /\ active >= 0
    /\ active <= MaxConcurrent
    /\ active = Cardinality(Holders)

\* C11 witness: the pool is at its cap with a caller parked, after an
\* execution has released its slot.
C11_Witness ==
    /\ active = MaxConcurrent
    /\ queue # << >>
    /\ \E e \in Execs : exec[e].pc \in {"done", "failed"}

\* C12: a caller that is not failed fast parks exactly when the pool is at its
\* cap, at the end of the queue; a slot is handed over only to the oldest
\* parked caller, which leaves the queue; a caller takes a slot on arrival
\* only when nobody is parked; the queue changes in no other way.
C12_QueueIsFifo ==
    /\ [](queue # << >> => active = MaxConcurrent)
    /\ [][\A e \in Execs :
            /\ (exec[e].pc = "idle" /\ exec'[e].pc = "parked") =>
                   (active = MaxConcurrent /\ queue' = Append(queue, e))
            /\ (exec[e].pc = "idle" /\ exec'[e].pc = "ready") =>
                   (queue = << >> /\ queue' = queue)
            /\ (exec[e].pc = "idle" /\ exec'[e].pc # "idle"
                    /\ active = MaxConcurrent) =>
                   exec'[e].pc \in {"parked", "throttled"}
            /\ (exec[e].pc = "parked" /\ exec'[e].pc # "parked") =>
                   /\ exec'[e].pc = "woken"
                   /\ e = Head(queue)
                   /\ queue' = Tail(queue)
            /\ queue' # queue =>
                   \E x \in Execs :
                       \/ exec[x].pc = "idle" /\ exec'[x].pc = "parked"
                       \/ exec[x].pc = "parked" /\ exec'[x].pc = "woken"]_vars

\* C12 witness: a released slot went to a parked caller while a caller that
\* parked after it is still in the queue.
C12_Witness ==
    /\ queue # << >>
    /\ \E e \in Execs : exec[e].pc = "woken"

\* C13: a call of execute fails fast exactly when now is before the host's
\* throttle-until time; a call that fails fast opens no connection and leaves
\* _active and _queue as they were; any other call takes a slot or parks.
C13_ThrottleFailsFast ==
    [][\A e \in Execs :
          (exec[e].pc = "idle" /\ exec'[e].pc # "idle") =>
              LET host == exec'[e].host IN
              /\ exec'[e].pc = "throttled" <=> now < providerThrottles[host]
              /\ exec'[e].pc = "throttled" =>
                     (active' = active /\ queue' = queue)
              /\ exec'[e].pc # "throttled" =>
                     exec'[e].pc \in {"ready", "parked"}]_vars

\* C13 witness: a call was failed fast for a host whose window has since
\* elapsed and whose entry a later call, let through, has dropped.
C13_Witness ==
    \E e \in Execs :
        /\ exec[e].pc = "throttled"
        /\ providerThrottles[exec[e].host] = 0

\* The step in which execution e leaves execute with an error.
Fails(e) == exec[e].pc = "attempt" /\ exec'[e].pc \in {"failed", "threw"}

\* The step gives one slot back: to the pool, or to the oldest parked caller.
SlotGivenBack ==
    \/ active' = active - 1 /\ queue' = queue
    \/ active' = active /\ queue # << >> /\ queue' = Tail(queue)

\* C26: an execution makes at most MAX_RETRIES attempts, each with a client
\* of its own whose predecessors are all destroyed; it fails only at its
\* MAX_RETRIES-th failed attempt or on a throttle signal, and it succeeds in
\* the step in which an attempt succeeds.
C26_BoundedFreshAttempts ==
    /\ [](\A e \in Execs :
            /\ exec[e].attempt <= MaxRetries
            /\ exec[e].pc = "attempt" =>
                   /\ exec[e].client \notin exec[e].destroyed
                   /\ exec[e].destroyed = 1..(exec[e].attempt - 1))
    /\ [][\A e \in Execs :
            /\ Fails(e) =>
                   \/ exec[e].attempt = MaxRetries
                   \/ providerThrottles'[exec[e].host] = now + ThrottleTicks
            /\ (exec[e].pc # "done" /\ exec'[e].pc = "done") =>
                   exec[e].pc = "attempt"]_vars

\* C27: an attempt that fails with a throttle signal sets the host's
\* throttle to now + 30 s, gives the slot back and fails the execution in
\* that step, without a backoff; a failed execution makes no attempt.
C27_ThrottleSignalAborts ==
    [][\A e \in Execs :
          /\ ExecError(e, TRUE) =>
                 /\ providerThrottles'[exec[e].host] = now + ThrottleTicks
                 /\ exec'[e].pc = "failed"
                 /\ SlotGivenBack
          /\ exec[e].pc = "failed" => exec'[e].pc = "failed"]_vars

\* C27 witness: an execution was aborted by a throttle signal: it has
\* failed and the host's window has just been opened.
C27_Witness ==
    \E e \in Execs, h \in Hosts :
        /\ exec[e].pc = "failed"
        /\ providerThrottles[h] = now + ThrottleTicks
        /\ \A x \in Execs \ {e} : exec[x].pc = "idle"

\* C28: an execution keeps its slot from the grant to its end and gives it
\* back in the step in which it ends, however it ends; when no execution is
\* in progress _active is 0 and the queue is empty.
C28_SlotReleasedOnEveryExit ==
    /\ [](\A e \in Execs :
            exec[e].pc \in {"ready", "woken", "attempt", "backoff"} =>
                e \in Holders /\ active >= 1)
    /\ []((\A e \in Execs :
                exec[e].pc \in {"idle", "throttled", "done", "failed", "threw"})
            => active = 0 /\ queue = << >>)
    /\ [][\A e \in Execs :
            (exec[e].pc = "attempt"
                 /\ exec'[e].pc \in {"done", "failed", "threw"}) =>
                SlotGivenBack]_vars

\* C29: a slot is never free while a caller is parked, and under the event
\* loop's scheduling every parked caller is granted a slot.
C29_ParkedCallerIsGranted ==
    /\ [](queue # << >> => active = MaxConcurrent)
    /\ \A e \in Execs : (exec[e].pc = "parked") ~> (exec[e].pc = "woken")

\* C14: no execution starts a connection attempt to a host while now is
\* before the host's throttle-until time, whether it was called, parked or
\* backing off when the throttle was set.
C14_NoAttemptWhileThrottled ==
    [][\A e \in Execs :
          (exec[e].pc # "attempt" /\ exec'[e].pc = "attempt") =>
              ~(now < providerThrottles[exec'[e].host])]_vars

\* ------------------------------------------------------------- cursor

\* The cursor of inbox i, as stored.
Cursor(i) == inboxes[i].last_seen_uid

\* Job j takes the step in which its worker returns after the cursor update.
Completes(j) == job[j].pc = "stored" /\ job'[j].pc = "done"

\* C15: when a fetch job that retrieved at least one message completes, the
\* inbox's last_seen_uid is the uid of the last entry, in listing order, that
\* the job retrieved; with no other fetch job between its enqueue and its
\* completion on the same inbox, nothing else has written the cursor.
C15_CursorIsLastRetrieved ==
    [][\A j \in FetchJobs :
          Completes(j) =>
              /\ Len(job[j].batch) > 0
              /\ \A n \in 1..Len(job[j].batch) :
                     n = Len(job[j].batch) =>
                         inboxes'[job[j].inbox].last_seen_uid = job[j].batch[n]
              /\ \A i \in InboxIds :
                     i # job[j].inbox =>
                         inboxes'[i].last_seen_uid = inboxes[i].last_seen_uid]_vars

\* One fetch job has run alone on inbox 1, retrieved uids 1 and 2, and left
\* the cursor on 2.
C15_Witness ==
    \E j \in FetchJobs :
        /\ job[j].pc = "done"
        /\ job[j].batch = <<1, 2>>
        /\ \A j2 \in FetchJobs \ {j} : job[j2].pc = "idle"
        /\ Cursor(job[j].inbox) = 2

\* C16: fetch jobs of one inbox are neither serialised nor coalesced, and the
\* cursor update is unconditional: a job that completes with a last uid below
\* the stored cursor lowers the cursor, whatever other job set it.
C16_CursorOverwrittenUnconditionally ==
    [][\A j \in FetchJobs :
          (Completes(j) /\ Cursor(job[j].inbox) # NoUid) =>
              \A u \in 1..MaxUid :
                  (u = job[j].batch[Len(job[j].batch)]
                        /\ u < Cursor(job[j].inbox)) =>
                      /\ inboxes'[job[j].inbox].last_seen_uid = u
                      /\ inboxes'[job[j].inbox].last_seen_uid
                            < Cursor(job[j].inbox)]_vars

\* Two jobs of inbox 1 overlapped and the cursor regressed: job b committed
\* uid 1 before job a inserted (a's only row is uid 2, though it retrieved
\* 1 and 2), a completed before b (the cursor is b's last uid), and the
\* cursor, once 2, is 1.
C16_Witness ==
    \E a, b \in FetchJobs :
        /\ a # b
        /\ job[a].pc = "done" /\ job[a].batch = <<1, 2>>
        /\ job[b].pc = "done" /\ job[b].batch = <<1>>
        /\ job[a].inbox = job[b].inbox
        /\ {m.uid : m \in RowsBy(a)} = {2}
        /\ {m.uid : m \in RowsBy(b)} = {1}
        /\ Cursor(job[a].inbox) = 1

\* C35: last_seen_uid of an existing inbox changes only in the step in which
\* a fetch job of that inbox completes, after its store transaction has
\* committed, and only to a uid the job retrieved; a job that retrieved
\* nothing or that failed does not complete, and the cursor of an inbox that
\* is not active is not written.
C35_CursorWrittenOnlyAfterCommit ==
    [][\A i \in InboxIds :
          (inboxes[i].status # "none"
               /\ inboxes'[i].last_seen_uid # inboxes[i].last_seen_uid) =>
              /\ inboxes[i].status = "active"
              /\ \E j \in FetchJobs :
                     /\ Completes(j)
                     /\ job[j].inbox = i
                     /\ txMsgs[j] = {} /\ txAtts[j] = {}
                     /\ \E n \in 1..Len(job[j].batch) :
                            inboxes'[i].last_seen_uid = job[j].batch[n]]_vars

\* C17: a message that cannot be retrieved or parsed is only skipped, so no
\* fetch job fails because of a single message.
C17_ParseFailureDoesNotFailJob ==
    \A j \in FetchJobs : job[j].pc = "failed" => job[j].err # "parse"

\* ------------------------------------------------------ UIDL selection

\* A worker that has its job (sinceUid, limit; 0 for a field the job lacks)
\* and the server's listing.
InitSelect ==
    /\ inboxes = [i \in InboxIds |-> NoInboxRow]
    /\ tokens = {}
    /\ messages = {}
    /\ attachments = {}
    /\ now = 0
    /\ job = [j \in Jobs |-> IdleJob]
    /\ txMsgs = [j \in Jobs |-> {}]
    /\ txAtts = [j \in Jobs |-> {}]
    /\ del = [i \in InboxIds |-> IdleDel]
    /\ rot = [r \in RotReqs |-> IdleRot]
    /\ resp = NoResp
    /\ active = 0
    /\ queue = << >>
    /\ providerThrottles = [h \in Hosts |-> 0]
    /\ exec = [e \in Execs |-> IdleExec]
    /\ get = IdleGet
    /\ \E l \in Listings, s \in 0..(MaxUid + 2), lim \in 0..(MaxFetch + 1) :
           sel = [NoSel EXCEPT !.pc = "uidl", !.uidList = l, !.sinceUid = s,
                               !.limit = lim]
    /\ domains = [d \in DomainIds |-> NoDomainRow]
    /\ localDomains = {}
    /\ smtp = NoSession
    /\ pop = NoPop
    /\ cry = NoCry
    /\ post = [q \in PostReqs |-> IdlePost]
    /\ gen = IdleGen

NextSelect ==
    \/ SelectUidl
    \/ \E ok \in BOOLEAN : SelectRetrieve(ok)

SpecSelect == InitSelect /\ [][NextSelect]_vars

\* Where sinceUid stands in the listing; 0 when it is absent or not listed,
\* so that the candidates are the entries after this position.
SinceAt == 
    IF sel.sinceUid # NoUid /\ \E n \in 1..Len(sel.uidList) : sel.uidList[n] = sel.sinceUid
    THEN CHOOSE n \in 1..Len(sel.uidList) : sel.uidList[n] = sel.sinceUid
    ELSE 0

\* min(limit, MAX_FETCH) of the job, and how many candidates there are.
Quota == IF sel.limit # 0 /\ sel.limit < MaxFetch THEN sel.limit ELSE MaxFetch

Candidates == Len(sel.uidList) - SinceAt

\* C18: the entries for which RETR is issued are the first min(limit,
\* MAX_FETCH) of the listing's entries strictly after sinceUid (of the whole
\* listing when sinceUid is absent or not listed), requested in listing
\* order, each once; what is retrieved is among them, in that order.
C18_SelectionIsLimitedSuffix ==
    sel.pc \in {"retr", "done"} =>
        /\ Len(sel.toFetch) = IF Candidates < Quota THEN Candidates ELSE Quota
        /\ \A n \in 1..Len(sel.toFetch) :
               sel.toFetch[n] = sel.uidList[SinceAt + n]
        /\ sel.k \in 1..(Len(sel.toFetch) + 1)
        /\ sel.pc = "done" => sel.k = Len(sel.toFetch) + 1
        /\ \E f \in [1..Len(sel.results) -> 1..(sel.k - 1)] :
               /\ \A n \in 1..Len(sel.results) :
                      sel.results[n] = sel.toFetch[f[n]]
               /\ \A n, n2 \in 1..Len(sel.results) : n < n2 => f[n] < f[n2]

\* The listing is 3, 1, 2, sinceUid is 3 and the limit is above the
\* maximum: RETR went to 1 and 2, and the first one failed.
C18_Witness ==
    /\ sel.pc = "done"
    /\ sel.uidList = <<3, 1, 2>>
    /\ sel.sinceUid = 3
    /\ sel.limit = MaxFetch + 1
    /\ sel.toFetch = <<1, 2>>
    /\ sel.results = <<2>>

\* ------------------------------------------ claims on GET /messages

C20_PagingReturnsEveryMessageOnce ==
    [][(get.pc = "read" /\ get'.pc = "done" /\ Len(get'.page) < get.limit) =>
          /\ \A m \in MessagesOf(get.inbox) :
                 \E n \in 1..Len(get'.seen) :
                     /\ get'.seen[n] = m.uid
                     /\ \A n2 \in 1..Len(get'.seen) :
                            get'.seen[n2] = m.uid => n2 = n
          /\ \A a, b \in 1..Len(get'.seen) :
                 a < b =>
                     \A m1, m2 \in MessagesOf(get.inbox) :
                         (m1.uid = get'.seen[a] /\ m2.uid = get'.seen[b]) =>
                             m1.fetched_at <= m2.fetched_at]_vars

\* ------------------------------------------ claims on the SMTP receiver

\* The address's domain is in the receiver's map of local domains.
DomainKnown(address) ==
    /\ Len(address) >= 2
    /\ \E name \in localDomains : name = toLowerCase(address[2])

\* The active inboxes whose address is the given one, letter case aside.
Matching(address) ==
    {i \in InboxIds :
        /\ inboxes[i].status = "active"
        /\ Len(inboxes[i].email_address) = Len(address)
        /\ \A n \in 1..Len(address) :
               toLowerCase(inboxes[i].email_address[n]) = toLowerCase(address[n])}

\* C21: a RCPT TO goes on to the inbox lookup only when its domain is in the
\* map of local domains, and is refused with 'Relay access denied' otherwise;
\* the lookup accepts only an address that an active inbox matches at that
\* moment, letter case aside, refuses with 'Unknown recipient' when none
\* does, and records the inbox of an accepted recipient, and nothing else,
\* under the lower-cased address.
C21_RcptAcceptedOnlyForLocalInbox ==
    /\ [](/\ \A key \in DOMAIN smtp.inboxMap :
               /\ key = Lower(key)
               /\ \E n \in 1..Len(smtp.rcptTo) : Lower(smtp.rcptTo[n]) = key
          /\ \A n \in 1..Len(smtp.rcptTo) :
               Lower(smtp.rcptTo[n]) \in DOMAIN smtp.inboxMap)
    /\ [][/\ (smtp.pc \in {"idle", "rcpt"} /\ smtp'.pc \in {"rcpt", "lookup"}
              /\ smtp' # smtp) =>
                /\ smtp'.pc = "lookup" <=> DomainKnown(smtp'.address)
                /\ smtp'.pc = "rcpt" => smtp'.reply = "Relay access denied"
                /\ smtp'.rcptTo = smtp.rcptTo
                /\ smtp'.inboxMap = smtp.inboxMap
          /\ (smtp.pc = "lookup" /\ smtp'.pc # "lookup") =>
                /\ smtp'.reply \in {"ok", "Unknown recipient"}
                /\ Matching(smtp.address) = {} =>
                       smtp'.reply = "Unknown recipient"
                /\ smtp'.reply = "Unknown recipient" =>
                       /\ smtp'.rcptTo = smtp.rcptTo
                       /\ smtp'.inboxMap = smtp.inboxMap
                /\ smtp'.reply = "ok" =>
                       /\ smtp'.inboxMap[Lower(smtp.address)]
                             \in Matching(smtp.address)
                       /\ \A key \in DOMAIN smtp'.inboxMap :
                              key # Lower(smtp.address) =>
                                  /\ key \in DOMAIN smtp.inboxMap
                                  /\ smtp'.inboxMap[key] = smtp.inboxMap[key]
                       /\ \E n \in 1..Len(smtp'.rcptTo) :
                              smtp'.rcptTo[n] = smtp.address]_vars

\* U@X was accepted for the inbox u@x, and v@X was refused as unknown.
C21_Witness ==
    /\ smtp.pc = "rcpt"
    /\ smtp.rcptTo = <<<<"U", "X">>>>
    /\ DOMAIN smtp.inboxMap = {<<"u", "x">>}
    /\ smtp.inboxMap[<<"u", "x">>] = 1
    /\ inboxes[1].email_address = <<"u", "x">>
    /\ smtp.address = <<"v", "X">>
    /\ smtp.reply = "Unknown recipient"

\* The rows the session's deliveries have stored.
SessionRows == {m \in messages : m.id[1] = 0}

\* C22: at the end of DATA the reply is OK exactly when the message was
\* stored for at least one recipient of the envelope; each recipient is
\* tried whatever happened to the ones before; a message over the maximum
\* is stored for nobody.
C22_OkIffStoredForSomeRecipient ==
    /\ [](smtp.pc = "done" =>
            /\ smtp.reply = "ok" <=>
                   \E m \in SessionRows : \E n \in 1..Len(smtp.rcptTo) :
                       /\ m.id[2] = n
                       /\ m.inbox_id = smtp.inboxMap[Lower(smtp.rcptTo[n])]
            /\ smtp.reply = "Message exceeds maximum size" =>
                   SessionRows = {})
    /\ [][(smtp.pc = "deliver" /\ smtp' # smtp) =>
              IF smtp.k < Len(smtp.rcptTo)
              THEN smtp'.pc = "deliver" /\ smtp'.k = smtp.k + 1
              ELSE smtp'.pc = "done"]_vars

\* Two recipients: storing for the first failed, the second got the
\* message, and the reply was OK.
C22_Witness ==
    /\ smtp.pc = "done"
    /\ Len(smtp.rcptTo) = 2
    /\ smtp.reply = "ok"
    /\ {m.id[2] : m \in SessionRows} = {2}

\* ------------------------------------------------ claims on the cipher

\* C25: decrypt(encrypt(p)) returns p for every plaintext p, the empty one
\* included.
C25_DecryptInvertsEncrypt ==
    cry.pc = "done" => ~cry.failed /\ cry.out = cry.plaintext

\* ------------------------------------------ claims on generated inboxes

\* C24: every inbox of type generated has a domain_id, and that domain row
\* exists.
C24_GeneratedInboxHasDomain ==
    \A i \in InboxIds :
        inboxes[i].inbox_type = "generated" =>
            /\ inboxes[i].domain_id \in DomainIds
            /\ domains[inboxes[i].domain_id].domain # "none"

\* ------------------------------------------ claims on the POP3 client

RECURSIVE JoinLines(_)
\* The lines of a message with CRLF between them.
JoinLines(lines) ==
    IF lines = << >> THEN << >>
    ELSE IF Len(lines) = 1 THEN Head(lines)
    ELSE Head(lines) \o <<"r", "n">> \o JoinLines(Tail(lines))

\* C23: the data of a multi-line response is the message's lines: a line
\* that the server sent with a dot put before it comes back without that
\* dot, the first line included, and the terminating line is not in it.
C23_BodyIsUnstuffed ==
    \A c \in Commands :
        (pop.result[c].kind = "data" /\ pop.replied[c] = "ok") =>
            pop.result[c].data = JoinLines(pop.body[c])

\* C30: a command is written only when every reply to the commands before
\* it has been received in full, and the data a RETR resolves with is the
\* server's reply to that RETR.
C30_OneCommandOutstanding ==
    /\ [](pop.result[2].kind = "data" => pop.result[2].data = <<"b">>)
    /\ [][Len(pop'.sent) > Len(pop.sent) =>
              /\ pop.sent = << >>
              /\ pop.inflight = << >>
              /\ pop.buffer = << >>]_vars

\* The commands of one fetch operation.
Issued == Commands \cup {UIDL}

\* C31: when a command timer has expired the client is DISCONNECTED, and no
\* command is written on that connection afterwards.
C31_TimeoutDestroysSocket ==
    /\ [](\A c \in Issued :
            pop.result[c].kind = "timeout" => pop.state = "DISCONNECTED")
    /\ [][(\E c \in Issued : pop.result[c].kind = "timeout") =>
              Len(pop'.sent) <= Len(pop.sent)]_vars

\* C33: once the -ERR line the server answered a command with has arrived,
\* that command has failed with the protocol error and the line is no longer
\* in the buffer.
C33_ErrFailsTheCommand ==
    \A c \in Issued :
        (pop.replied[c] = "err" /\ pop.inflight = << >>) =>
            /\ pop.result[c].kind = "err"
            /\ pop.buffer = << >>

\* C34: uidl() returns one {num, uid} entry per line of the listing, none
\* for the status line; for a mailbox without messages it returns the empty
\* list and no RETR is written.
C34_UidlListsTheMailbox ==
    /\ pop.result[UIDL].kind = "data" =>
           /\ Len(uidl(pop.result[UIDL].data)) = pop.count
           /\ \A n \in 1..pop.count :
                  uidl(pop.result[UIDL].data)[n].num = n
    /\ pop.count = 0 =>
           \A c \in Commands :
               pop.result[c].kind = "none" /\ pop.replied[c] = "none"

\* C32: connect() settles: it is resolved only after a +OK greeting, it is
\* not left pending once the socket is closed and no timer is pending, and a
\* pending connect() is resolved or rejected in the end.
C32_ConnectSettles ==
    /\ [](pop.connect = "resolved" => pop.greeted)
    /\ []((pop.socket = "closed" /\ ~pop.timer) => pop.connect # "pending")
    /\ (pop.connect = "pending") ~> (pop.connect \in {"resolved", "rejected"})

\* ------------------------------------- fetch jobs run one after another

\* sinceUid || inbox.last_seen_uid: the caller's since_uid, or else the
\* stored cursor.
effectiveSinceUid(sinceUid, row) ==
    IF sinceUid # NoUid THEN sinceUid ELSE row.last_seen_uid

\* Math.min(limit, maxMessageFetch) of a request that gives a limit.
effectiveLimit(limit) == IF limit < MaxFetch THEN limit ELSE MaxFetch

\* GET /v1/inboxes/:id/messages with fetch_new, up to the enqueue: the
\* handler reads the inbox row and hands the queue a job with the effective
\* sinceUid and limit.  sel holds the job's data; its uidList is the mailbox
\* as the server last listed it.
GetEnqueue(i, sinceUid, limit) ==
    /\ inboxes[i].status = "active"
    /\ sel.pc \in {"idle", "done"}
    /\ sel' = [NoSel EXCEPT
                  !.pc = "queued",
                  !.uidList = sel.uidList,
                  !.sinceUid = effectiveSinceUid(sinceUid, inboxes[i]),
                  !.limit = effectiveLimit(limit)]
    /\ UNCHANGED <<storeSide, now, active, queue, providerThrottles, exec, get,
                   mailSide>>

\* The listings of a mailbox that has only grown since it was listed as l.
Grown(l) ==
    {g \in Listings :
        /\ Len(g) >= Len(l)
        /\ SubSeq(g, 1, Len(l)) = l
        /\ \A n \in 1..Len(g) : g[n] <= MaxUid}

\* fetchMailWorker inside pop3Pool.execute: client.uidl() answers with the
\* mailbox's listing g.
WorkerUidl(j, g) ==
    /\ j \in FetchJobs
    /\ job[j].pc = "resolved"
    /\ sel.pc = "queued"
    /\ g \in Grown(sel.uidList)
    /\ sel' = [sel EXCEPT !.pc = "uidl", !.uidList = g]
    /\ UNCHANGED <<storeSide, now, active, queue, providerThrottles, exec, get,
                   mailSide>>

\* No fetch job other than j is between its start and its end.
Alone(j) ==
    \A j2 \in FetchJobs \ {j} : job[j2].pc \in {"idle", "done", "failed"}

\* GET requests with fetch_new on inbox 1, each enqueued after the job of
\* the one before has ended; the job's POP3 session lists the mailbox,
\* retrieves the selected entries, stores what it retrieved and writes the
\* cursor.
NextCursor ==
    \/ \E ttl \in 1..MaxTtl : CreateInbox(1, "external", ttl)
    \/ \E sinceUid \in 0..(MaxUid + 1), limit \in 1..MaxLimit :
           /\ Alone(0)
           /\ GetEnqueue(1, sinceUid, limit)
    \/ \E j \in FetchJobs :
           /\ sel.pc = "queued"
           /\ Alone(j)
           /\ FetchResolve(j, 1)
    \/ \E j \in FetchJobs, g \in Listings : WorkerUidl(j, g)
    \/ SelectUidl
    \/ \E ok \in BOOLEAN : SelectRetrieve(ok)
    \/ \E j \in FetchJobs : sel.pc = "done" /\ FetchSession(j, sel.results, "ok")
    \/ \E j \in FetchJobs : StoreInsert(j)
    \/ \E j \in FetchJobs : StoreCommit(j)
    \/ \E j \in FetchJobs : FetchAdvance(j)

SpecCursor == Init /\ [][NextCursor]_vars

\* The place of a uid in a listing, 0 for a uid that is not listed (and for
\* no uid).
ListedAt(l, uid) == findIndex(l, uid) + 1

\* C36: with the fetch jobs of an inbox run strictly one at a time against a
\* mailbox whose listing only grows, no step moves last_seen_uid to a uid
\* that is earlier in the listing than the one it held, whatever since_uid
\* and limit the caller of GET /messages supplies.
C36_CursorNeverMovesBack ==
    [][\A i \in InboxIds :
          ListedAt(sel'.uidList, inboxes'[i].last_seen_uid)
              >= ListedAt(sel'.uidList, inboxes[i].last_seen_uid)]_vars

\* C37: when a fetch job sets last_seen_uid to u, every entry the job
\* selected for retrieval that is listed at or before u has a stored message
\* row, so that no entry whose RETR failed lies behind the cursor.
C37_CursorPassesNoUnretrieved ==
    [][\A j \in FetchJobs :
          Completes(j) =>
              \A n \in 1..Len(sel.toFetch) :
                  ListedAt(sel.uidList, sel.toFetch[n])
                          <= ListedAt(sel.uidList,
                                      inboxes'[job[j].inbox].last_seen_uid) =>
                      \E m \in messages' :
                          /\ m.inbox_id = job[j].inbox
                          /\ m.uid = sel.toFetch[n]]_vars

\* C38: in every reachable state an inbox whose status is deleted has no
\* active token, also when an authenticated rotation of its token runs its
\* revoke-all step before and its create step after the delete transaction.
C38_DeletedInboxHasNoActiveToken ==
    \A i \in InboxIds :
        inboxes[i].status = "deleted" => ActiveTokens(i) = {}

\* ----------------------------------------- POST /v1/inboxes, step by step

\* SELECT COUNT(*) FROM inboxes WHERE created_by_ip = $1 AND status = 'active'
countInboxesByIp(ip) ==
    Cardinality({i \in InboxIds :
                    inboxes[i].created_by_ip = ip /\ inboxes[i].status = "active"})

\* The handler up to its first await's result: the count of the client's
\* active inboxes; at the limit it throws ValidationError (400,
\* VALIDATION_ERROR), otherwise it goes on to create the inbox.
PostCount(q, ip) ==
    /\ post[q].pc = "idle"
    /\ IF countInboxesByIp(ip) >= MaxPerIp
       THEN /\ post' = [post EXCEPT ![q] = [IdlePost EXCEPT !.pc = "done",
                                                           !.ip = ip]]
            /\ resp' = [NoResp EXCEPT !.op = "create", !.code = 400]
       ELSE /\ post' = [post EXCEPT ![q] = [IdlePost EXCEPT !.pc = "counted",
                                                           !.ip = ip]]
            /\ UNCHANGED resp
    /\ UNCHANGED <<inboxes, tokens, messages, attachments, now, job, txMsgs,
                   txAtts, del, rot, fetchSide, domains, localDomains, smtp,
                   pop, cry, gen>>

\* inboxRepo.createInbox: the row is inserted, active, with the client's
\* address as created_by_ip.
PostCreateInbox(q, i, mode) ==
    /\ post[q].pc = "counted"
    /\ inboxes[i].status = "none"
    /\ inboxes' = [inboxes EXCEPT ![i] =
            [status |-> "active", inbox_type |-> mode,
             pop3_username_enc |-> encrypt(Username(i)),
             pop3_password_enc |-> encrypt(Password(i)),
             last_seen_uid |-> NoUid,
             email_address |-> Email(i), domain_id |-> NoDomain,
             created_by_ip |-> post[q].ip]]
    /\ post' = [post EXCEPT ![q].pc = "created", ![q].inbox = i]
    /\ UNCHANGED <<tokens, messages, attachments, now, job, txMsgs, txAtts,
                   del, rot, resp, fetchSide, domains, localDomains, smtp,
                   pop, cry, gen>>

\* tokenRepo.createToken and the 201 answer with the raw token.
PostCreateToken(q, ttl) ==
    /\ post[q].pc = "created"
    /\ NextTokenId <= MaxTok
    /\ tokens' = tokens \cup {TokenRow(NextTokenId, post[q].inbox, ttl)}
    /\ resp' = [NoResp EXCEPT !.op = "create", !.code = 201,
                              !.token = signToken(NextTokenId),
                              !.inbox = post[q].inbox]
    /\ post' = [post EXCEPT ![q].pc = "done"]
    /\ UNCHANGED <<inboxes, messages, attachments, now, job, txMsgs, txAtts,
                   del, rot, fetchSide, domains, localDomains, smtp, pop, cry,
                   gen>>

\* Create requests from two client addresses, their awaits interleaved.
NextCreate ==
    \/ \E q \in PostReqs, ip \in Ips : PostCount(q, ip)
    \/ \E q \in PostReqs, i \in InboxIds, mode \in {"external", "generated"} :
           PostCreateInbox(q, i, mode)
    \/ \E q \in PostReqs, ttl \in 1..MaxTtl : PostCreateToken(q, ttl)

SpecCreate == Init /\ [][NextCreate]_vars

\* Request q is answered in this step after counting for address ip.
Counts(q, ip) == post[q].pc = "idle" /\ post'[q].pc # "idle" /\ post'[q].ip = ip

\* C39: the active inboxes created through POST /v1/inboxes from one client
\* address never number more than MAX_INBOXES_PER_IP, also with several
\* create requests of that address in progress at once; a request made with
\* the limit reached is answered 400 VALIDATION_ERROR and creates neither an
\* inbox nor a token.
C39_InboxesPerIpBounded ==
    /\ [](\A ip \in Ips : countInboxesByIp(ip) <= MaxPerIp)
    /\ [][\A q \in PostReqs, ip \in Ips :
             (Counts(q, ip) /\ countInboxesByIp(ip) >= MaxPerIp) =>
                 /\ resp'.op = "create" /\ resp'.code = 400
                 /\ post'[q].pc = "done"
                 /\ inboxes' = inboxes
                 /\ tokens' = tokens]_vars

\* ---------------------------- POST /v1/admin/generate, step by step

\* The greatest count a generate request asks for.
GenCounts == 1..2

\* Whether a statement sent through the pool, on a connection of its own,
\* finds inbox row i: only committed rows are there for it.
VisibleToPool(i) == inboxes[i].status # "none"

\* The handler up to the first statement of its transaction: without an
\* active domain it throws ValidationError (400); otherwise withTransaction
\* begins and the batch record is inserted through the transaction's client.
GenBegin(domainIds, count) ==
    /\ gen.pc \in {"idle", "failed", "committed"}
    /\ IF getDomainsForGeneration(domainIds) = {}
       THEN /\ gen' = IdleGen
            /\ resp' = [NoResp EXCEPT !.op = "generate", !.code = 400]
       ELSE /\ gen' = [IdleGen EXCEPT !.pc = "tx", !.count = count,
                                      !.batch = TRUE]
            /\ UNCHANGED resp
    /\ UNCHANGED <<inboxes, tokens, messages, attachments, now, job, txMsgs,
                   txAtts, del, rot, fetchSide, domains, localDomains, smtp,
                   pop, cry, post>>

\* The row the transaction inserts for generated address i of domain d.
GenInboxRow(i, d) ==
    [status |-> "active", inbox_type |-> "generated",
     pop3_username_enc |-> encrypt(Username(i)),
     pop3_password_enc |-> encrypt(Password(i)),
     last_seen_uid |-> NoUid, email_address |-> Email(i), domain_id |-> d,
     created_by_ip |-> "p"]

\* The transaction's next statement through its client: the INSERT of the
\* next generated inbox (id i, domain d), pending until COMMIT; after the
\* loop, COMMIT, which puts the inbox rows into the table, and the 201.
GenTxNext(i, d) ==
    /\ gen.pc = "tx"
    /\ IF Cardinality(gen.inboxes) = gen.count
       THEN /\ inboxes' = [k \in InboxIds |->
                   IF \E r \in gen.inboxes : r.id = k
                   THEN GenInboxRow(k, (CHOOSE r \in gen.inboxes : r.id = k).domain_id)
                   ELSE inboxes[k]]
            /\ gen' = [gen EXCEPT !.pc = "committed"]
            /\ resp' = [NoResp EXCEPT !.op = "generate", !.code = 201]
       ELSE /\ inboxes[i].status = "none"
            /\ \A r \in gen.inboxes : r.id # i
            /\ domains[d].domain # "none" /\ domains[d].is_active
            /\ gen' = [gen EXCEPT !.pc = "token", !.cur = i,
                                  !.inboxes = @ \cup {[id |-> i, domain_id |-> d]}]
            /\ UNCHANGED <<inboxes, resp>>
    /\ UNCHANGED <<tokens, messages, attachments, now, job, txMsgs, txAtts,
                   del, rot, fetchSide, domains, localDomains, smtp, pop, cry,
                   post>>

\* tokenRepo.createToken inside the loop: INSERT INTO tokens through the
\* pool.  The foreign key tokens.inbox_id is checked against what that
\* connection sees; without the inbox row the statement fails, the callback
\* throws, withTransaction rolls back and the error handler answers 500.
GenCreateToken(ttl) ==
    /\ gen.pc = "token"
    /\ IF VisibleToPool(gen.cur)
       THEN /\ NextTokenId <= MaxTok
            /\ tokens' = tokens \cup {TokenRow(NextTokenId, gen.cur, ttl)}
            /\ gen' = [gen EXCEPT !.pc = "tx"]
            /\ UNCHANGED resp
       ELSE /\ gen' = [IdleGen EXCEPT !.pc = "failed"]
            /\ resp' = [NoResp EXCEPT !.op = "generate", !.code = 500]
            /\ UNCHANGED tokens
    /\ UNCHANGED <<inboxes, messages, attachments, now, job, txMsgs, txAtts,
                   del, rot, fetchSide, domains, localDomains, smtp, pop, cry,
                   post>>

\* Domain administration and generate requests, one after another.
NextBulk ==
    \/ \E d \in DomainIds, name \in DomainNames : CreateDomain(d, name)
    \/ \E d \in DomainIds, isActive \in BOOLEAN : UpdateDomain(d, isActive)
    \/ \E domainIds \in SUBSET DomainIds, count \in GenCounts :
           GenBegin(domainIds, count)
    \/ \E i \in InboxIds, d \in DomainIds : GenTxNext(i, d)
    \/ \E ttl \in 1..MaxTtl : GenCreateToken(ttl)

SpecBulk == Init /\ [][NextBulk]_vars

\* The inbox rows in the table that bulk generation made.
GeneratedInboxes == {i \in InboxIds : inboxes[i].inbox_type = "generated"}

\* C40: bulk generation is all-or-nothing: a request that got past the
\* domain check ends either committed, with its batch record, count inboxes
\* and exactly one active token per inbox, or failed, with no batch record,
\* no inbox and no token left; and each token insert sees the inbox row its
\* transaction inserted.
C40_GenerateAllOrNothing ==
    /\ gen.pc = "committed" =>
           /\ gen.batch
           /\ Cardinality(gen.inboxes) = gen.count
           /\ \A r \in gen.inboxes :
                  /\ inboxes[r.id].status = "active"
                  /\ Cardinality(ActiveTokens(r.id)) = 1
    /\ gen.pc = "failed" =>
           /\ ~gen.batch
           /\ GeneratedInboxes = {}
           /\ tokens = {}
    /\ gen.pc = "token" => VisibleToPool(gen.cur)

====
